---- MODULE Spec2Model ----
(***************************************************************************)
(* DebugGenie: the knowledge store (src/src/engine/memory_manager.py) and  *)
(* the investigation pipeline (src/src/agents/investigation_graph.py).     *)
(*                                                                         *)
(* Python values are modelled as follows.  A dict is a function with a     *)
(* domain of strings, so "key in entry" is membership in DOMAIN.  None is  *)
(* "None" where a string is expected, NoneDict where a dict is expected    *)
(* and <<>> where a list or a text is expected.  A float in [2^-4, 4) is   *)
(* the pair <<hi, lo>> of value (hi * 2^29 + lo) * 2^-57: every IEEE-754   *)
(* double of that range is such a pair, and + and - round to nearest, ties *)
(* to even, as the interpreter does.                                       *)
(***************************************************************************)
EXTENDS Integers, Sequences, FiniteSets, TLC

VARIABLES
    memory,        \* MemoryManager.memory: the in-memory list of case records
    disk,          \* the file at storage_path: absent, of size 0, or a JSON list
    feedbackFile,  \* the document at feedback_path: the audit log (a list)
    now,           \* datetime.now(): a logical clock, one tick per feedback call,
                   \* so that now - 1 feedback calls have been made
    run,           \* the InvestigationState of the run in flight, and its position
    runsStarted,   \* number of runs started so far
    calls,         \* collaborator operations the run in flight has invoked
    op,            \* the operation that produced the current state
    submitted,     \* per case number, the feedback calls made for it
    orphaned,      \* case numbers for which a feedback call found and created no record
    threads        \* SpecThreads: position and locals of each concurrent caller

vars == <<memory, disk, feedbackFile, now, run, runsStarted, calls, op,
         submitted, orphaned, threads>>

----------------------------------------------------------------------------
(* Bounds of the model *)

\* feedback calls in a behaviour of Spec, and of SpecRun
MaxFeedback == 3
MaxRunFeedback == 1
\* runs started in a behaviour of SpecRun
MaxRuns == 1
\* concurrent callers of the MemoryManager, one call each
MaxThreads == 2
\* feedback calls in a behaviour of SpecStats
MaxStatsFeedback == 2
\* feedback calls in a behaviour of SpecBackfill
MaxBackfillFeedback == 2
\* runs of the same ticket after its first run, in a behaviour of SpecRerun
MaxReruns == 1
\* feedback calls in a behaviour of SpecFaulty
MaxFaultyFeedback == 1
\* feedback calls that complete in a behaviour of SpecAudit
MaxAuditFeedback == 2
\* keys of a response of the Analysis Service that are null, in SpecParse
MaxNulls == 1
\* entries of the batch handed to save_memory in SpecRoundTrip
MaxBatch == 3

----------------------------------------------------------------------------
(* Python floats *)

LimbBase == 2^29

F_0_05 == <<13421772, 429496730>>
F_0_20 == <<53687091, 107374184>>
F_0_3 == <<80530636, 429496728>>
F_0_5 == <<134217728, 0>>
F_0_7 == <<187904819, 107374176>>
F_0_75 == <<201326592, 0>>
F_1_0 == <<268435456, 0>>

FLess(a, b) == a[1] < b[1] \/ (a[1] = b[1] /\ a[2] < b[2])

FLeq(a, b) == ~FLess(b, a)

\* spacing of the doubles around x, in units of 2^-57
FUlp(x) ==
    IF x[1] >= 2^29 THEN 64
    ELSE IF x[1] >= 2^28 THEN 32
    ELSE IF x[1] >= 2^27 THEN 16
    ELSE IF x[1] >= 2^26 THEN 8
    ELSE IF x[1] >= 2^25 THEN 4
    ELSE 2

\* round to nearest double, ties to even
FRound(x) ==
    LET p == FUlp(x)
        rem == x[2] % p
        q == x[2] \div p
        down == x[2] - rem
        up == (2 * rem > p) \/ (2 * rem = p /\ q % 2 = 1)
        lo == IF up THEN down + p ELSE down
    IN  IF lo = LimbBase THEN <<x[1] + 1, 0>> ELSE <<x[1], lo>>

FAdd(a, b) ==
    LET lo == a[2] + b[2]
    IN  FRound(<<a[1] + b[1] + (lo \div LimbBase), lo % LimbBase>>)

\* a - b for a >= b
FSub(a, b) ==
    LET lo == a[2] - b[2]
    IN  FRound(IF lo < 0 THEN <<a[1] - b[1] - 1, lo + LimbBase>>
                         ELSE <<a[1] - b[1], lo>>)

\* x / n for an int n of 1..3, rounded to nearest, ties to even
FDivInt(x, n) ==
    LET hi == x[1] \div n
        rest == (x[1] % n) * LimbBase + x[2]
        lo == rest \div n
        p == FUlp(<<hi, lo>>)
        \* the part of the quotient below one spacing, in units of 1/n
        low == (lo % p) * n + (rest % n)
        down == lo - (lo % p)
        up == (2 * low > p * n) \/ (2 * low = p * n /\ (lo \div p) % 2 = 1)
        rounded == IF up THEN down + p ELSE down
    IN  IF rounded = LimbBase THEN <<hi + 1, 0>> ELSE <<hi, rounded>>

\* Python's min(a, b) and max(a, b): the first argument wins a tie
FMin(a, b) == IF FLess(b, a) THEN b ELSE a

FMax(a, b) == IF FLess(a, b) THEN b ELSE a

----------------------------------------------------------------------------
(* Natural numbers of any size: the sequence of the digits in base 2^14,     *)
(* lowest first and without leading zeros.                                   *)

Base == 2^14

Limb(a, i) == IF i <= Len(a) THEN a[i] ELSE 0

RECURSIVE BigOf(_)
BigOf(n) == IF n = 0 THEN <<>> ELSE <<n % Base>> \o BigOf(n \div Base)

RECURSIVE BigTrim(_)
BigTrim(a) ==
    IF a = <<>> THEN <<>>
    ELSE IF a[Len(a)] = 0 THEN BigTrim(SubSeq(a, 1, Len(a) - 1)) ELSE a

\* -1, 0 or 1 as a < b, a = b or a > b
BigCmp(a, b) ==
    IF Len(a) # Len(b) THEN (IF Len(a) < Len(b) THEN -1 ELSE 1)
    ELSE LET diff == {i \in 1..Len(a) : a[i] # b[i]}
         IN  IF diff = {} THEN 0
             ELSE LET i == CHOOSE j \in diff : \A k \in diff : k <= j
                  IN  IF a[i] < b[i] THEN -1 ELSE 1

RECURSIVE BigAddFrom(_, _, _, _)
BigAddFrom(a, b, i, carry) ==
    IF i > Len(a) /\ i > Len(b) THEN (IF carry = 0 THEN <<>> ELSE <<carry>>)
    ELSE LET sum == Limb(a, i) + Limb(b, i) + carry
         IN  <<sum % Base>> \o BigAddFrom(a, b, i + 1, sum \div Base)

BigAdd(a, b) == BigAddFrom(a, b, 1, 0)

RECURSIVE BigSubFrom(_, _, _, _)
BigSubFrom(a, b, i, borrow) ==
    IF i > Len(a) THEN <<>>
    ELSE LET diff == a[i] - Limb(b, i) - borrow
         IN  IF diff < 0 THEN <<diff + Base>> \o BigSubFrom(a, b, i + 1, 1)
             ELSE <<diff>> \o BigSubFrom(a, b, i + 1, 0)

\* a - b for a >= b
BigSub(a, b) == BigTrim(BigSubFrom(a, b, 1, 0))

RECURSIVE BigMulSmallFrom(_, _, _, _)
BigMulSmallFrom(a, k, i, carry) ==
    IF i > Len(a) THEN (IF carry = 0 THEN <<>> ELSE <<carry>>)
    ELSE LET prod == a[i] * k + carry
         IN  <<prod % Base>> \o BigMulSmallFrom(a, k, i + 1, prod \div Base)

\* a * k for 0 <= k < Base
BigMulSmall(a, k) == IF k = 0 THEN <<>> ELSE BigMulSmallFrom(a, k, 1, 0)

\* a * Base^n
BigShiftLimbs(a, n) == IF a = <<>> THEN <<>> ELSE [i \in 1..n |-> 0] \o a

RECURSIVE BigMulFrom(_, _, _)
BigMulFrom(a, b, j) ==
    IF j > Len(b) THEN <<>>
    ELSE BigAdd(BigShiftLimbs(BigMulSmall(a, b[j]), j - 1), BigMulFrom(a, b, j + 1))

BigMul(a, b) == BigMulFrom(a, b, 1)

\* a * 2^k
BigShl(a, k) == BigShiftLimbs(BigMulSmall(a, 2^(k % 14)), k \div 14)

RECURSIVE BigDivSmallFrom(_, _, _, _)
BigDivSmallFrom(a, d, i, rem) ==
    IF i = 0 THEN <<>>
    ELSE LET cur == rem * Base + a[i]
         IN  BigDivSmallFrom(a, d, i - 1, cur % d) \o <<cur \div d>>

\* a \div 2^k
BigShr(a, k) ==
    LET n == k \div 14
        top == IF n >= Len(a) THEN <<>> ELSE SubSeq(a, n + 1, Len(a))
    IN  BigTrim(BigDivSmallFrom(top, 2^(k % 14), Len(top), 0))

BigBitLen(a) ==
    IF a = <<>> THEN 0
    ELSE 14 * (Len(a) - 1) + (CHOOSE k \in 1..14 : 2^(k - 1) <= a[Len(a)] /\ a[Len(a)] < 2^k)

BigIsOdd(a) == a # <<>> /\ a[1] % 2 = 1

\* the value of a number below 2^31
RECURSIVE BigToInt(_)
BigToInt(a) == IF a = <<>> THEN 0 ELSE a[1] + Base * BigToInt(Tail(a))

\* the largest digit g in lo..hi with (r + g * Base^(j-1))^2 <= n
RECURSIVE BigSqrtDigit(_, _, _, _, _)
BigSqrtDigit(n, r, j, lo, hi) ==
    IF lo = hi THEN lo
    ELSE LET mid == (lo + hi + 1) \div 2
             c == BigAdd(r, BigShiftLimbs(<<mid>>, j - 1))
         IN  IF BigCmp(BigMul(c, c), n) <= 0 THEN BigSqrtDigit(n, r, j, mid, hi)
             ELSE BigSqrtDigit(n, r, j, lo, mid - 1)

\* floor of the square root, one digit at a time from the top
RECURSIVE BigIsqrtFrom(_, _, _)
BigIsqrtFrom(n, r, j) ==
    IF j = 0 THEN r
    ELSE LET g == BigSqrtDigit(n, r, j, 0, Base - 1)
         IN  BigIsqrtFrom(n, IF g = 0 THEN r ELSE BigAdd(r, BigShiftLimbs(<<g>>, j - 1)), j - 1)

BigIsqrt(n) == BigIsqrtFrom(n, <<>>, (Len(n) + 1) \div 2)

\* the largest digit g in lo..hi with g * d <= r
RECURSIVE BigDivDigit(_, _, _, _)
BigDivDigit(r, d, lo, hi) ==
    IF lo = hi THEN lo
    ELSE LET mid == (lo + hi + 1) \div 2
         IN  IF BigCmp(BigMulSmall(d, mid), r) <= 0 THEN BigDivDigit(r, d, mid, hi)
             ELSE BigDivDigit(r, d, lo, mid - 1)

\* long division, one digit of the quotient at a time
RECURSIVE BigDivDigits(_, _, _)
BigDivDigits(qr, d, i) ==
    IF i = 0 THEN qr
    ELSE LET r == BigShiftLimbs(qr.r, 1)
             g == BigDivDigit(r, d, 0, Base - 1)
         IN  BigDivDigits([q |-> BigTrim(<<g>> \o qr.q), r |-> BigSub(r, BigMulSmall(d, g))],
                          d, i - 1)

\* [q, r] with n * Base^i = q * d + r and r < d, for n < Base * d
BigDivShifted(n, d, i) ==
    LET g == BigDivDigit(n, d, 0, Base - 1)
    IN  BigDivDigits([q |-> BigOf(g), r |-> BigSub(n, BigMulSmall(d, g))], d, i)

----------------------------------------------------------------------------
(* Floats as decimal text: repr(f), which json.dump writes, and float(s),    *)
(* which json.load applies to a literal with a fraction.                     *)

\* 10^k
RECURSIVE BigPow10(_)
BigPow10(k) == IF k = 0 THEN <<1>> ELSE BigMulSmall(BigPow10(k - 1), 10)

\* a float as its number of units of 2^-57, and back
FUnits(f) == BigAdd(BigShl(BigOf(f[1]), 29), BigOf(f[2]))

FOfUnits(n) ==
    LET hi == BigShr(n, 29)
    IN  <<BigToInt(hi), BigToInt(BigSub(n, BigShl(hi, 29)))>>

\* q / 2^t to the nearest integer, ties to even; q is the floor of a number
\* that is q itself if `exact`
RoundShifted(q, exact, t) ==
    CHOOSE m \in
        {LET c == BigCmp(BigSub(q, BigShl(m0, t)), BigShl(<<1>>, t - 1))
             up == c = 1 \/ (c = 0 /\ (~exact \/ BigIsOdd(m0)))
         IN  IF up THEN BigAdd(m0, <<1>>) ELSE m0 : m0 \in {BigShr(q, t)}} : TRUE

\* the double nearest to digits * 10^-places, ties to even, for a value of
\* [2^-5, 4): the quotient is taken with 70 binary places and rounded to the
\* spacing of the doubles of its size (2^-s)
DecimalToFloat(digits, places) ==
    CHOOSE f \in
        {LET ge(n) == BigCmp(BigMulSmall(digits, n), b) >= 0
             s == IF BigCmp(digits, BigMulSmall(b, 2)) >= 0 THEN 51
                  ELSE IF ge(1) THEN 52 ELSE IF ge(2) THEN 53
                  ELSE IF ge(4) THEN 54 ELSE IF ge(8) THEN 55
                  ELSE IF ge(16) THEN 56 ELSE 57
         IN  CHOOSE g \in
               {FOfUnits(BigShl(m, 57 - s)) :
                  m \in {RoundShifted(d.q, d.r = <<>>, 70 - s)}} : TRUE :
           b \in {BigPow10(places)}, d \in {BigDivShifted(digits, BigPow10(places), 5)}} : TRUE

\* |a - b|
BigDist(a, b) == IF BigCmp(a, b) >= 0 THEN BigSub(a, b) ELSE BigSub(b, a)

\* the decimal of the fewest places that float() maps back to f, and of
\* those the nearest to f: the digits repr(f) shows; 19 places show every
\* double of [2^-5, 4) apart, and the search ends there for any other f
RECURSIVE ShortestDecimal(_, _)
ShortestDecimal(f, places) ==
    CHOOSE shortest \in
        {LET dist(digits) == BigDist(BigShl(digits, 57), scaled)
         IN  CHOOSE found \in
               {IF good = {} /\ places < 19
                THEN ShortestDecimal(f, places + 1)
                ELSE IF good = {}
                THEN [digits |-> BigShr(scaled, 57), places |-> places]
                ELSE [digits |-> CHOOSE g \in good :
                                    \A h \in good : BigCmp(dist(g), dist(h)) <= 0,
                      places |-> places] :
                  good \in {{digits \in {BigShr(scaled, 57),
                                         BigAdd(BigShr(scaled, 57), <<1>>)} :
                               DecimalToFloat(digits, places) = f}}} : TRUE :
           scaled \in {BigMul(FUnits(f), BigPow10(places))}} : TRUE

DigitChars == "0123456789"

\* the decimal digits of n, at least `least` of them, as text
RECURSIVE DecimalString(_, _)
DecimalString(n, least) ==
    IF n = <<>> /\ least <= 0 THEN ""
    ELSE LET q == BigTrim(BigDivSmallFrom(n, 10, Len(n), 0))
             r == BigToInt(BigSub(n, BigMulSmall(q, 10)))
         IN  DecimalString(q, least - 1) \o SubSeq(DigitChars, r + 1, r + 1)

\* mutant: the score is cut to two decimals
FloatRepr_TwoPlaces(f) ==
    LET text == DecimalString(BigShr(BigMulSmall(FUnits(f), 100), 57), 3)
    IN  SubSeq(text, 1, Len(text) - 2) \o "." \o SubSeq(text, Len(text) - 1, Len(text))

\* -f
FNeg(f) == IF f[2] = 0 THEN <<0 - f[1], 0>> ELSE <<0 - f[1] - 1, LimbBase - f[2]>>

\* repr(f) for f >= 0
PositiveRepr(f) ==
    LET d == ShortestDecimal(f, 1)
        text == DecimalString(d.digits, d.places + 1)
    IN  SubSeq(text, 1, Len(text) - d.places) \o "." \o
        SubSeq(text, Len(text) - d.places + 1, Len(text))

\* repr(f), as in "0.7" and "0.49999999999999994"
FloatRepr(f) == (IF f[1] < 0 THEN "-" ELSE "") \o PositiveRepr(IF f[1] < 0 THEN FNeg(f) ELSE f)

\* the number the decimal digits s[i..j] stand for
RECURSIVE DigitsValue(_, _, _)
DigitsValue(s, i, j) ==
    IF i > j THEN <<>>
    ELSE BigAdd(BigMulSmall(DigitsValue(s, i, j - 1), 10),
                BigOf(CHOOSE c \in 0..9 :
                        SubSeq(DigitChars, c + 1, c + 1) = SubSeq(s, j, j)))

\* float(s) for a literal "i.f"
ParsePositive(s) ==
    LET dot == CHOOSE i \in 1..Len(s) : SubSeq(s, i, i) = "."
        digits == SubSeq(s, 1, dot - 1) \o SubSeq(s, dot + 1, Len(s))
    IN  CHOOSE f \in {DecimalToFloat(value, Len(s) - dot) :
                        value \in {DigitsValue(digits, 1, Len(digits))}} : TRUE

\* float(s) for a literal "i.f" or "-i.f"
ParseFloat(s) ==
    IF SubSeq(s, 1, 1) = "-" THEN FNeg(ParsePositive(SubSeq(s, 2, Len(s))))
    ELSE ParsePositive(s)

----------------------------------------------------------------------------
(* Python dicts *)

None == "None"

NoneDict == [none |-> TRUE]

\* None where the code tells it from the empty list
NoneList == <<"None">>

Has(d, k) == k \in DOMAIN d

\* d.get(k, default)
Get(d, k, default) == IF Has(d, k) THEN d[k] ELSE default

\* d[k] = v
Put(d, k, v) == [x \in (DOMAIN d) \cup {k} |-> IF x = k THEN v ELSE d[x]]

\* truth value of an optional string, of an optional dict, of an optional list
TruthyStr(x) == x # None /\ x # ""

TruthyDict(x) == x # NoneDict /\ DOMAIN x # {}

TruthyList(x) == x # <<>> /\ x # NoneList

----------------------------------------------------------------------------
(* Inputs *)

Tickets == {"T1", "T2"}

\* the case numbers feedback is given for; the records of the others enter
\* the store by save_memory
FeedbackTickets == {"T1"}

\* SalesforceClient.get_ticket_text_for_comparison, plus the visual markers
TextOf(t, vision) == <<"text", t, TruthyDict(vision)>>

\* AIAnalyzer.get_embedding: one vector per comparison text
EmbeddingOf(text) ==
    IF text[2] = "T1" THEN (IF text[3] THEN <<2, 1>> ELSE <<1, 0>>)
    ELSE (IF text[3] THEN <<1, 2>> ELSE <<0, 1>>)

AiOutputs == {[probableRootCause |-> "AI RC", recommendedSteps |-> "AI RES"]}

Correction == [root_cause |-> "Analyst RC", resolution |-> "Analyst RES"]

\* feedback_type and analyst_correction of a call: the analyst's correction
\* comes with "edited", and "edited" may come without one
FeedbackKinds ==
    {<<"correct", NoneDict>>, <<"incorrect", NoneDict>>,
     <<"edited", Correction>>, <<"edited", NoneDict>>}

\* entries handed to save_memory by the backfill and by the tests
UpsertEntry(t, root_cause) ==
    LET base == [case_number |-> t, text |-> TextOf(t, NoneDict),
                 embedding |-> EmbeddingOf(TextOf(t, NoneDict))]
    IN  IF root_cause = None THEN base
        ELSE Put(Put(base, "root_cause", root_cause), "resolution", root_cause)

\* without a root cause (the tests) and with one (a run's self-registration)
UpsertEntries == {UpsertEntry(t, c) : t \in Tickets, c \in {None, "AI RC"}}

UpsertBatches ==
    {<<e>> : e \in UpsertEntries} \cup
    {<<e1, e2>> : e1 \in UpsertEntries, e2 \in UpsertEntries}

\* documents the store may find at storage_path when it is constructed
LegacyEntry(t) ==
    [case_number |-> t, text |-> TextOf(t, NoneDict),
     embedding |-> EmbeddingOf(TextOf(t, NoneDict)),
     root_cause |-> "Old RC", resolution |-> "Old RES"]

InitialDisks ==
    {[state |-> "absent", data |-> <<>>],
     [state |-> "empty", data |-> <<>>],
     [state |-> "json", data |-> <<LegacyEntry("T1")>>]}

----------------------------------------------------------------------------
(* MemoryManager *)

\* mutant: the migration resets the score and counts itself as a feedback
MigrateEntry_Resets(entry) ==
    LET e1 == IF ~Has(entry, "ai_root_cause")
              THEN Put(entry, "ai_root_cause", Get(entry, "root_cause", "N/A"))
              ELSE entry
        e2 == IF ~Has(e1, "ai_resolution")
              THEN Put(e1, "ai_resolution", Get(e1, "resolution", "N/A"))
              ELSE e1
        e3 == IF ~Has(e2, "analyst_root_cause")
              THEN Put(e2, "analyst_root_cause", None) ELSE e2
        e4 == IF ~Has(e3, "analyst_resolution")
              THEN Put(e3, "analyst_resolution", None) ELSE e3
        e5 == IF ~Has(e4, "verified") THEN Put(e4, "verified", FALSE) ELSE e4
        e6 == Put(e5, "reliability_score", F_0_7)
    IN  Put(e6, "feedback_count", Get(e6, "feedback_count", 0) + 1)

\* the schema migration of one entry, _load_memory's loop body
MigrateEntry(entry) ==
    LET e1 == IF ~Has(entry, "ai_root_cause")
              THEN Put(entry, "ai_root_cause", Get(entry, "root_cause", "N/A"))
              ELSE entry
        e2 == IF ~Has(e1, "ai_resolution")
              THEN Put(e1, "ai_resolution", Get(e1, "resolution", "N/A"))
              ELSE e1
        e3 == IF ~Has(e2, "analyst_root_cause")
              THEN Put(e2, "analyst_root_cause", None) ELSE e2
        e4 == IF ~Has(e3, "analyst_resolution")
              THEN Put(e3, "analyst_resolution", None) ELSE e3
        e5 == IF ~Has(e4, "verified") THEN Put(e4, "verified", FALSE) ELSE e4
        e6 == IF ~Has(e5, "reliability_score")
              THEN Put(e5, "reliability_score", F_0_7) ELSE e5
    IN  IF ~Has(e6, "feedback_count") THEN Put(e6, "feedback_count", 0) ELSE e6

\* the record save_memory builds for an entry that is not stored yet
NewEntry(entry) ==
    [case_number |-> entry.case_number,
     text |-> entry.text,
     embedding |-> entry.embedding,
     ai_root_cause |-> Get(entry, "root_cause", "N/A"),
     ai_resolution |-> Get(entry, "resolution", "N/A"),
     analyst_root_cause |-> None,
     analyst_resolution |-> None,
     verified |-> FALSE,
     reliability_score |-> F_0_7,
     feedback_count |-> 0]

CaseNumbers(mem) == {mem[i].case_number : i \in 1..Len(mem)}

\* save_memory's loop over entries, with its set existing_numbers
RECURSIVE SaveLoop(_, _, _)
SaveLoop(mem, existing_numbers, entries) ==
    IF entries = <<>> THEN mem
    ELSE LET entry == Head(entries)
         IN  IF entry.case_number \notin existing_numbers
             THEN SaveLoop(Append(mem, NewEntry(entry)),
                           existing_numbers \cup {entry.case_number},
                           Tail(entries))
             ELSE SaveLoop(mem, existing_numbers, Tail(entries))

\* mutant: an entry that is stored already replaces its record
SavedMemory_Overwrite(mem, entries) ==
    LET saved == SaveLoop(mem, CaseNumbers(mem), entries)
        given == {entries[j].case_number : j \in 1..Len(entries)}
    IN  [i \in 1..Len(saved) |->
            IF saved[i].case_number \in given
            THEN NewEntry(entries[CHOOSE j \in 1..Len(entries) :
                            entries[j].case_number = saved[i].case_number])
            ELSE saved[i]]

\* mutant: every entry of the batch is appended, stored or not
SavedMemory_AlwaysAppend(mem, entries) ==
    mem \o [i \in 1..Len(entries) |-> NewEntry(entries[i])]

\* the list save_memory leaves in self.memory
SavedMemory(mem, entries) == SaveLoop(mem, CaseNumbers(mem), entries)

\* the FeedbackRecord submit_feedback appends to the audit trail
FeedbackEntry(case_number, feedback_type, ai_output, analyst_correction, confidence_score, ts) ==
    [case_number |-> case_number,
     timestamp |-> ts,
     feedback_type |-> feedback_type,
     ai_root_cause |-> Get(ai_output, "probableRootCause", None),
     ai_resolution |-> Get(ai_output, "recommendedSteps", None),
     analyst_root_cause |->
        IF TruthyDict(analyst_correction)
        THEN Get(analyst_correction, "root_cause", None) ELSE None,
     analyst_resolution |->
        IF TruthyDict(analyst_correction)
        THEN Get(analyst_correction, "resolution", None) ELSE None,
     confidence_score_at_time |-> confidence_score]

\* mutant: the file is written without the entries read from it
WrittenFeedbacks_Overwrite(feedbacks, feedback_entry) == <<feedback_entry>>

\* the list submit_feedback writes back to feedback_path
WrittenFeedbacks(feedbacks, feedback_entry) == Append(feedbacks, feedback_entry)

\* mutant: no cap at 1.0
BoostReliability_NoCap(r) == FAdd(r, F_0_05)

\* reliability after "correct"
BoostReliability(r) == FMin(F_1_0, FAdd(r, F_0_05))

\* mutant: no floor at 0.3
CutReliability_NoFloor(r) == FSub(r, F_0_20)

\* reliability after "incorrect"
CutReliability(r) == FMax(F_0_3, FSub(r, F_0_20))

\* mutant: "edited" records the correction but keeps the score
ApplyFeedbackType_EditedKeepsScore(entry, feedback_type, analyst_correction) ==
    IF feedback_type = "correct"
    THEN [entry EXCEPT !.verified = TRUE,
                       !.reliability_score = BoostReliability(@)]
    ELSE IF feedback_type = "incorrect"
    THEN [entry EXCEPT !.verified = FALSE,
                       !.reliability_score = CutReliability(@)]
    ELSE IF feedback_type = "edited" /\ TruthyDict(analyst_correction)
    THEN [entry EXCEPT !.verified = TRUE,
                       !.analyst_root_cause =
                           Get(analyst_correction, "root_cause", None),
                       !.analyst_resolution =
                           Get(analyst_correction, "resolution", None)]
    ELSE entry

\* mutant: "incorrect" cuts the score but leaves verified as it was
ApplyFeedbackType_IncorrectKeepsVerified(entry, feedback_type, analyst_correction) ==
    IF feedback_type = "correct"
    THEN [entry EXCEPT !.verified = TRUE,
                       !.reliability_score = BoostReliability(@)]
    ELSE IF feedback_type = "incorrect"
    THEN [entry EXCEPT !.reliability_score = CutReliability(@)]
    ELSE IF feedback_type = "edited" /\ TruthyDict(analyst_correction)
    THEN [entry EXCEPT !.verified = TRUE,
                       !.reliability_score = F_1_0,
                       !.analyst_root_cause =
                           Get(analyst_correction, "root_cause", None),
                       !.analyst_resolution =
                           Get(analyst_correction, "resolution", None)]
    ELSE entry

\* mutant: "edited" verifies the record, with a correction or without
ApplyFeedbackType_EditedVerifies(entry, feedback_type, analyst_correction) ==
    IF feedback_type = "correct"
    THEN [entry EXCEPT !.verified = TRUE,
                       !.reliability_score = BoostReliability(@)]
    ELSE IF feedback_type = "incorrect"
    THEN [entry EXCEPT !.verified = FALSE,
                       !.reliability_score = CutReliability(@)]
    ELSE [entry EXCEPT !.verified = TRUE,
                       !.reliability_score = F_1_0,
                       !.analyst_root_cause =
                           Get(analyst_correction, "root_cause", @),
                       !.analyst_resolution =
                           Get(analyst_correction, "resolution", @)]

\* the branch of submit_feedback on feedback_type, for a stored entry
ApplyFeedbackType(entry, feedback_type, analyst_correction) ==
    IF feedback_type = "correct"
    THEN [entry EXCEPT !.verified = TRUE,
                       !.reliability_score = BoostReliability(@)]
    ELSE IF feedback_type = "incorrect"
    THEN [entry EXCEPT !.verified = FALSE,
                       !.reliability_score = CutReliability(@)]
    ELSE IF feedback_type = "edited" /\ TruthyDict(analyst_correction)
    THEN [entry EXCEPT !.verified = TRUE,
                       !.reliability_score = F_1_0,
                       !.analyst_root_cause =
                           Get(analyst_correction, "root_cause", None),
                       !.analyst_resolution =
                           Get(analyst_correction, "resolution", None)]
    ELSE entry

\* an entry without AI outputs takes them from the feedback
FillAiOutputs(entry, ai_output) ==
    IF entry.ai_root_cause = "N/A"
    THEN [entry EXCEPT !.ai_root_cause = Get(ai_output, "probableRootCause", None),
                       !.ai_resolution = Get(ai_output, "recommendedSteps", None)]
    ELSE entry

\* mutant: the feedback is applied but not counted
UpdatedEntry_NoCount(entry, feedback_type, ai_output, analyst_correction, today) ==
    FillAiOutputs(ApplyFeedbackType(Put(entry, "last_feedback_at", today),
                                    feedback_type, analyst_correction),
                  ai_output)

\* what submit_feedback does to the first entry of that case number
UpdatedEntry(entry, feedback_type, ai_output, analyst_correction, today) ==
    LET counted == Put([entry EXCEPT !.feedback_count = @ + 1],
                       "last_feedback_at", today)
    IN  FillAiOutputs(ApplyFeedbackType(counted, feedback_type, analyst_correction),
                      ai_output)

\* mutant: the record is created as save_memory creates one
FeedbackNewEntry_AsUpsert(case_number, feedback_type, ai_output, analyst_correction, text, embedding, today) ==
    [case_number |-> case_number,
     text |-> text,
     embedding |-> embedding,
     ai_root_cause |-> Get(ai_output, "probableRootCause", "N/A"),
     ai_resolution |-> Get(ai_output, "recommendedSteps", "N/A"),
     analyst_root_cause |-> None,
     analyst_resolution |-> None,
     verified |-> FALSE,
     reliability_score |-> F_0_7,
     feedback_count |-> 0,
     last_feedback_at |-> today]

\* the record submit_feedback creates for a case number that is not stored
FeedbackNewEntry(case_number, feedback_type, ai_output, analyst_correction, text, embedding, today) ==
    [case_number |-> case_number,
     text |-> text,
     embedding |-> embedding,
     ai_root_cause |-> Get(ai_output, "probableRootCause", "N/A"),
     ai_resolution |-> Get(ai_output, "recommendedSteps", "N/A"),
     analyst_root_cause |->
        IF TruthyDict(analyst_correction)
        THEN Get(analyst_correction, "root_cause", None) ELSE None,
     analyst_resolution |->
        IF TruthyDict(analyst_correction)
        THEN Get(analyst_correction, "resolution", None) ELSE None,
     verified |-> feedback_type \in {"correct", "edited"},
     reliability_score |->
        IF feedback_type = "edited" THEN F_1_0
        ELSE IF feedback_type = "correct" THEN F_0_75 ELSE F_0_5,
     feedback_count |-> 1,
     last_feedback_at |-> today]

\* index of the first entry with that case number, 0 when there is none
FirstIndex(mem, case_number) ==
    IF case_number \in CaseNumbers(mem)
    THEN CHOOSE i \in 1..Len(mem) :
            /\ mem[i].case_number = case_number
            /\ \A j \in 1..(i - 1) : mem[j].case_number # case_number
    ELSE 0

\* the list submit_feedback leaves in self.memory
FeedbackMemory(mem, case_number, feedback_type, ai_output, analyst_correction, text, embedding, today) ==
    LET i == FirstIndex(mem, case_number)
    IN  IF i # 0
        THEN [mem EXCEPT ![i] = UpdatedEntry(@, feedback_type, ai_output,
                                             analyst_correction, today)]
        ELSE IF TruthyList(text) /\ TruthyList(embedding)
        THEN Append(mem, FeedbackNewEntry(case_number, feedback_type, ai_output,
                                          analyst_correction, text, embedding,
                                          today))
        ELSE mem

\* sum(...) of get_memory_stats over the entries from i on: left to right
RECURSIVE SumReliability(_, _, _)
SumReliability(mem, i, acc) ==
    IF i > Len(mem) THEN acc
    ELSE SumReliability(mem, i + 1,
                        FAdd(acc, Get(mem[i], "reliability_score", F_0_7)))

\* mutant: every entry counts as verified
MemoryStats_AllVerified(mem) ==
    [entry_count |-> Len(mem),
     verified_count |-> Len(mem),
     avg_reliability |->
        IF mem # <<>>
        THEN FDivInt(SumReliability(mem, 2,
                                    Get(mem[1], "reliability_score", F_0_7)),
                     Len(mem))
        ELSE 0]

\* the dict get_memory_stats returns; 0 + x is x, so the sum starts at the
\* first score
MemoryStats(mem) ==
    [entry_count |-> Len(mem),
     verified_count |->
        Cardinality({i \in 1..Len(mem) : Get(mem[i], "verified", FALSE)}),
     avg_reliability |->
        IF mem # <<>>
        THEN FDivInt(SumReliability(mem, 2,
                                    Get(mem[1], "reliability_score", F_0_7)),
                     Len(mem))
        ELSE 0]

----------------------------------------------------------------------------
(* The store's document.  A JSON value is the pair of its type and its       *)
(* value: null, a bool, an int, a float by its literal, a string, an array   *)
(* by the sequence of its items, an object by its members.                   *)

JsonNull == <<"null", "None">>

JsonFalse == <<"bool", FALSE>>

JsonTrue == <<"bool", TRUE>>

JsonFloat(literal) == <<"float", literal>>

JsonStr(text) == <<"str", text>>

JsonInt(n) == <<"int", n>>

\* the reliability scores a store of the model can hold: those of a new
\* record, and what the feedback of a behaviour makes of them
RECURSIVE ScoresWithin(_, _)
ScoresWithin(scores, n) ==
    IF n = 0 THEN scores
    ELSE ScoresWithin(scores \cup {BoostReliability(r) : r \in scores}
                             \cup {CutReliability(r) : r \in scores}, n - 1)

KnownFloats == ScoresWithin({F_0_5, F_0_7, F_0_75, F_1_0}, MaxFeedback)

\* their literals, and the values of these literals, computed once
KnownReprs == {[f |-> f, literal |-> FloatRepr(f)] : f \in KnownFloats}

KnownLiterals == {[literal |-> k.literal, f |-> ParseFloat(k.literal)] : k \in KnownReprs}

\* the Python type of each field of a record
FieldTypes ==
    [case_number |-> "str", text |-> "text", embedding |-> "list",
     ai_root_cause |-> "str", ai_resolution |-> "str",
     analyst_root_cause |-> "str", analyst_resolution |-> "str",
     root_cause |-> "str", resolution |-> "str",
     verified |-> "bool", reliability_score |-> "float",
     feedback_count |-> "int", last_feedback_at |-> "text"]

\* json.dump of a field of a record: a score by its repr, a list item by
\* item, None as null
JsonDumpField(key, value) ==
    LET type == FieldTypes[key]
    IN  IF type = "str" THEN (IF value = None THEN JsonNull ELSE JsonStr(value))
        ELSE IF type = "text" THEN JsonStr(value)
        ELSE IF type = "list"
        THEN (IF value = NoneList THEN JsonNull
              ELSE <<"array", [i \in 1..Len(value) |-> JsonInt(value[i])]>>)
        ELSE IF type = "float" THEN JsonFloat(IF value \in KnownFloats
                                      THEN (CHOOSE k \in KnownReprs : k.f = value).literal
                                      ELSE FloatRepr(value))
        ELSE IF type = "bool" THEN (IF value THEN JsonTrue ELSE JsonFalse)
        ELSE JsonInt(value)

\* json.load of a member of a record
JsonLoadField(key, json) ==
    IF json[1] = "str" THEN json[2]
    ELSE IF json[1] = "array" THEN [i \in 1..Len(json[2]) |-> json[2][i][2]]
    ELSE IF json[1] = "null" THEN (IF key = "embedding" THEN NoneList ELSE None)
    ELSE IF json[1] = "float"
    THEN (IF \E k \in KnownLiterals : k.literal = json[2]
          THEN (CHOOSE k \in KnownLiterals : k.literal = json[2]).f
          ELSE ParseFloat(json[2]))
    ELSE json[2]

\* mutant: the embedding of a record is not written
JsonDumpEntry_NoEmbedding(entry) ==
    <<"object", [k \in DOMAIN entry |->
                    IF k = "embedding" THEN JsonNull ELSE JsonDumpField(k, entry[k])]>>

\* json.dump of a record: the object of its fields
JsonDumpEntry(entry) ==
    <<"object", [k \in DOMAIN entry |-> JsonDumpField(k, entry[k])]>>

\* json.load of an object: the dict of its members
JsonLoadEntry(object) ==
    [k \in DOMAIN object[2] |-> JsonLoadField(k, object[2][k])]

\* _load_memory: the list read from storage_path, migrated; a document that
\* json.load rejects ("partial": the beginning of a dump) gives the empty list
LoadMemory(d) ==
    IF d.state = "absent" THEN <<>>
    ELSE IF d.state = "empty" THEN <<>>
    ELSE IF d.state = "partial" THEN <<>>
    ELSE [i \in 1..Len(d.data) |-> MigrateEntry(d.data[i])]

\* json.dump(self.memory, f) on storage_path opened with "w": the array of
\* the records, kept as the list json.load reads from it
DumpMemory(mem) ==
    [state |-> "json",
     data |-> [i \in 1..Len(mem) |-> JsonLoadEntry(JsonDumpEntry(mem[i]))]]

\* the ways the write of storage_path can go: open and json.dump succeed;
\* open(storage_path, "w") raises; open has truncated the file and json.dump
\* raises before or after it has written a part of the document
WriteOutcomes == {"written", "open raised", "dump raised at once", "dump raised midway"}

\* storage_path after "with open(storage_path, 'w') as f: json.dump(mem, f)"
Written(d, mem, outcome) ==
    IF outcome = "written" THEN DumpMemory(mem)
    ELSE IF outcome = "open raised" THEN d
    ELSE IF outcome = "dump raised at once" THEN [state |-> "empty", data |-> <<>>]
    ELSE [state |-> "partial", data |-> <<>>]

\* whether save_memory and submit_feedback raise to their caller when the
\* write has raised: "except Exception as e: print(...)" catches it
WriteRaises(outcome) == FALSE

----------------------------------------------------------------------------
(* numpy float64.  A double is [sign, m, e] of value sign * m * 2^e with     *)
(* 2^52 <= m < 2^53 a natural number in base 2^14, or Zero.  sqrt, * and /   *)
(* are correctly rounded: to nearest, ties to even.                          *)

DblZero == [sign |-> 1, m |-> <<>>, e |-> 0]

\* the double nearest to sign * n * 2^e, ties to even
DblRound(sign, n, e) ==
    IF n = <<>> THEN DblZero
    ELSE LET len == BigBitLen(n)
         IN  IF len <= 53
             THEN [sign |-> sign, m |-> BigShl(n, 53 - len), e |-> e - (53 - len)]
             ELSE LET k == len - 53
                      q == BigShr(n, k)
                      r == BigSub(n, BigShl(q, k))
                      c == BigCmp(r, BigShl(<<1>>, k - 1))
                      up == c = 1 \/ (c = 0 /\ BigIsOdd(q))
                      q2 == IF up THEN BigAdd(q, <<1>>) ELSE q
                  IN  IF BigBitLen(q2) = 54
                      THEN [sign |-> sign, m |-> BigShr(q2, 1), e |-> e + k + 1]
                      ELSE [sign |-> sign, m |-> q2, e |-> e + k]

\* float(n) for an integer n
DblOfInt(n) == DblRound(IF n < 0 THEN -1 ELSE 1, BigOf(IF n < 0 THEN -n ELSE n), 0)

\* a result that lies strictly between two integers rounds as the lower one
\* and a half does, the integers having more than 54 bits
Sticky(q, exact) == IF exact THEN BigMulSmall(q, 2) ELSE BigAdd(BigMulSmall(q, 2), <<1>>)

\* np.sqrt(x) for x >= 0
DblSqrt(x) ==
    IF x.m = <<>> THEN DblZero
    ELSE LET odd == x.e % 2 # 0
             m == IF odd THEN BigMulSmall(x.m, 2) ELSE x.m
             e == IF odd THEN x.e - 1 ELSE x.e
             n == BigShl(m, 60)
             root == BigIsqrt(n)
         IN  DblRound(1, Sticky(root, BigMul(root, root) = n), (e \div 2) - 31)

\* a * b
DblMul(a, b) ==
    IF a.m = <<>> \/ b.m = <<>> THEN DblZero
    ELSE DblRound(a.sign * b.sign, BigMul(a.m, b.m), a.e + b.e)

\* a / b for b # 0
DblDiv(a, b) ==
    IF a.m = <<>> THEN DblZero
    ELSE LET d == BigDivShifted(a.m, b.m, 5)
         IN  DblRound(a.sign * b.sign, Sticky(d.q, d.r = <<>>), a.e - b.e - 71)

\* a < b
DblLess(a, b) ==
    LET mag(x, y) == \* |x| < |y| for nonzero x and y
            x.e < y.e \/ (x.e = y.e /\ BigCmp(x.m, y.m) < 0)
    IN  IF a.m = <<>> THEN b.m # <<>> /\ b.sign = 1
        ELSE IF b.m = <<>> THEN a.sign = -1
        ELSE IF a.sign # b.sign THEN a.sign = -1
        ELSE IF a.sign = 1 THEN mag(a, b) ELSE mag(b, a)

DblLeq(a, b) == ~DblLess(b, a)


----------------------------------------------------------------------------
(* SimilarityEngine.  An embedding is a tuple of integers, of length 0, 2 or  *)
(* 3 in this model; None, where a list is expected, is NoneList.              *)

\* 0.80 as a float64: the default of SimilarityEngine.threshold
DefaultThreshold == [sign |-> 1, m |-> <<6554, 9830, 6553, 1638>>, e |-> -53]

\* np.dot raises ValueError for vectors of different lengths
ValueError == [raised |-> "ValueError"]

\* np.dot(v1, v2) for vectors of one length
Dot(v1, v2) ==
    LET RECURSIVE Sum(_)
        Sum(i) == IF i = 0 THEN 0 ELSE v1[i] * v2[i] + Sum(i - 1)
    IN  Sum(Len(v1))

\* np.linalg.norm(v): the square root of v.dot(v), taken as a float
Norm(v) == DblSqrt(DblOfInt(Dot(v, v)))

\* dot_product / (norm_v1 * norm_v2), 0.0 for a zero norm
Cosine(vec1, vec2) ==
    LET dot_product == Dot(vec1, vec2)
        norm_v1 == Norm(vec1)
        norm_v2 == Norm(vec2)
    IN  IF norm_v1 = DblZero \/ norm_v2 = DblZero THEN DblZero
        ELSE DblDiv(DblOfInt(dot_product), DblMul(norm_v1, norm_v2))

\* the embeddings get_embedding returns for the model's tickets
Embeddings == {EmbeddingOf(<<"text", t, v>>) : t \in Tickets, v \in BOOLEAN}

\* their scores, computed once
KnownScores ==
    {[vec1 |-> v1, vec2 |-> v2, score |-> Cosine(v1, v2)] : v1 \in Embeddings, v2 \in Embeddings}

cosine_similarity(vec1, vec2) ==
    IF vec1 = NoneList \/ vec2 = NoneList THEN DblZero
    ELSE IF Len(vec1) # Len(vec2) THEN ValueError
    ELSE IF vec1 \in Embeddings /\ vec2 \in Embeddings
    THEN (CHOOSE k \in KnownScores : k.vec1 = vec1 /\ k.vec2 = vec2).score
    ELSE Cosine(vec1, vec2)

\* round(float(score), 2), in hundredths: the nearest, ties to even
RoundedScore(score) ==
    IF score.m = <<>> THEN 0
    ELSE LET n == BigMulSmall(score.m, 100)
             k == 0 - score.e
             q == BigShr(n, k)
             c == BigCmp(BigSub(n, BigShl(q, k)), BigShl(<<1>>, k - 1))
             up == c = 1 \/ (c = 0 /\ BigIsOdd(q))
         IN  score.sign * (BigToInt(q) + (IF up THEN 1 ELSE 0))

\* the scan of find_most_similar_semantic from entry i on: [match, score],
\* match being the index of best_match (0 for None), or the ValueError raised;
\* score is bound once per entry, as the local of the loop is
RECURSIVE ScanEntries(_, _, _, _, _)
ScanEntries(current_embedding, memory_entries, i, best_match, best_score) ==
    IF i > Len(memory_entries) THEN [match |-> best_match, score |-> best_score]
    ELSE CHOOSE best \in
           {IF Has(score, "raised") THEN score
            ELSE IF DblLess(best_score, score)
            THEN ScanEntries(current_embedding, memory_entries, i + 1, i, score)
            ELSE ScanEntries(current_embedding, memory_entries, i + 1,
                             best_match, best_score) :
              score \in {cosine_similarity(current_embedding,
                                           Get(memory_entries[i], "embedding",
                                               NoneList))}} : TRUE

\* mutant: a best score equal to the threshold is no match
find_most_similar_semantic_Strict(threshold, current_embedding, memory_entries) ==
    CHOOSE found \in
        {IF Has(best, "raised") THEN best
         ELSE IF DblLess(threshold, best.score) THEN best
         ELSE [match |-> 0, score |-> DblZero] :
            best \in {ScanEntries(current_embedding, memory_entries, 1, 0, DblZero)}} : TRUE

find_most_similar_semantic(threshold, current_embedding, memory_entries) ==
    CHOOSE found \in
        {IF Has(best, "raised") THEN best
         ELSE IF DblLeq(threshold, best.score) THEN best
         ELSE [match |-> 0, score |-> DblZero] :
            best \in {ScanEntries(current_embedding, memory_entries, 1, 0, DblZero)}} : TRUE

----------------------------------------------------------------------------
(* InvestigationGraph: the state of a run and the nodes of the graph *)

Nodes == <<"ingest_ticket", "extract_visuals", "query_memory", "generate_rca",
           "analyze_logs", "synthesize_findings">>

LogInputs == {None, "", "ERROR svc=checkout TimeoutException: read timed out"}

ConfidenceScores == {35, 90}

VisionData == [error_code |-> "504"]

\* no run in flight; full_entry_at is the place in self.memory of the dict
\* that similarity_context["full_entry"] refers to, 0 when it refers to none
NoRun ==
    [pc |-> "none", ticket_id |-> None, log_data |-> None,
     ticket_data |-> None, case_obj |-> NoneDict, vision_data |-> NoneDict,
     similarity_context |-> NoneDict, full_entry_at |-> 0,
     text_for_embedding |-> <<>>,
     current_embedding |-> <<>>, initial_rca |-> NoneDict,
     log_summary |-> NoneDict, enhanced_rca |-> NoneDict,
     confidence_score |-> 0, status_updates |-> <<>>, visited |-> <<>>,
     called |-> <<>>, downloaded |-> <<>>]

\* InvestigationGraph.run: the initial state, at the entry point of the graph
InitialState(ticket_id, log_data) ==
    [NoRun EXCEPT !.pc = "ingest_ticket", !.ticket_id = ticket_id,
                  !.log_data = log_data]

\* mutant: a node returns a list of its own, holding its message only
Enter_OwnList(state, node, message) ==
    [state EXCEPT !.visited = Append(@, node),
                  !.status_updates = <<message>>]

\* a node is entered: it is recorded and its status message is appended
Enter(state, node, message) ==
    [state EXCEPT !.visited = Append(@, node),
                  !.status_updates = Append(@, message)]

\* a collaborator is called: the call is recorded, in order
Call(state, name) == [state EXCEPT !.called = Append(@, name)]

\* mutant: a node that raised is skipped
Abort_Resumes(state) == [state EXCEPT !.pc = "synthesize_findings"]

\* the node raised: the run is over
Abort(state) == [state EXCEPT !.pc = "aborted"]

\* mutant: a low confidence routes to the log deep dive as well
route_after_rca_LowConfidence(state) ==
    IF TruthyStr(state.log_data) \/ state.confidence_score < 50
    THEN "log_deep_dive" ELSE "finalize"

\* mutant: a confident analysis skips the log deep dive
route_after_rca_Confident(state) ==
    IF TruthyStr(state.log_data) /\ state.confidence_score < 50
    THEN "log_deep_dive" ELSE "finalize"

route_after_rca(state) ==
    IF TruthyStr(state.log_data) THEN "log_deep_dive" ELSE "finalize"

\* mutant: the "finalize" edge leads to the end of the graph
AfterRca_SkipSynthesize(state) ==
    IF route_after_rca(state) = "log_deep_dive" THEN "analyze_logs" ELSE "END"

\* the target of the conditional edge out of generate_rca
AfterRca(state) ==
    IF route_after_rca(state) = "log_deep_dive" THEN "analyze_logs"
    ELSE "synthesize_findings"

\* LogParser.parse, abridged to the fields the run keeps
ParseLog(log_text) ==
    IF log_text = "" THEN NoneDict
    ELSE [top_exception |-> "TimeoutException", line_count |-> 1]

----------------------------------------------------------------------------
(* The store's operations, each called by one caller at a time *)

RunVars == <<run, runsStarted, calls>>

\* MemoryManager.save_memory(entries), called outside a run (the backfill)
save_memory(entries) ==
    /\ memory' = SavedMemory(memory, entries)
    /\ disk' = DumpMemory(memory')
    /\ op' = [name |-> "save_memory", n |-> Len(entries),
              ids |-> {entries[i].case_number : i \in 1..Len(entries)}]
    /\ UNCHANGED <<feedbackFile, now, submitted, orphaned, RunVars, threads>>

\* the state of a run once self.memory is mem: "full_entry" is the matched
\* dict of self.memory itself, so it reads what that dict holds now; a run
\* that raised has left no state behind
Referenced(state, mem) ==
    IF state.full_entry_at = 0 \/ state.pc = "aborted" THEN state
    ELSE [state EXCEPT !.similarity_context.full_entry = mem[state.full_entry_at]]

\* MemoryManager.submit_feedback(case_number, feedback_type, ai_output, ...)
submit_feedback(case_number, feedback_type, ai_output, analyst_correction, confidence_score, text, embedding) ==
    /\ feedbackFile' =
            WrittenFeedbacks(feedbackFile,
                             FeedbackEntry(case_number, feedback_type, ai_output,
                                           analyst_correction, confidence_score,
                                           now))
    /\ memory' = FeedbackMemory(memory, case_number, feedback_type, ai_output,
                                analyst_correction, text, embedding, now)
    /\ disk' = DumpMemory(memory')
    /\ now' = now + 1
    /\ op' = [name |-> "submit_feedback", case_number |-> case_number,
              feedback_type |-> feedback_type,
              analyst_correction |-> analyst_correction,
              supplied |-> TruthyList(text) /\ TruthyList(embedding)]
    /\ submitted' = [submitted EXCEPT ![case_number] = @ + 1]
    /\ orphaned' = IF case_number \in CaseNumbers(memory') THEN orphaned
                   ELSE orphaned \cup {case_number}
    /\ run' = Referenced(run, memory')
    /\ UNCHANGED <<runsStarted, calls, threads>>

\* MemoryManager.reload()
reload ==
    /\ memory' = LoadMemory(disk)
    /\ op' = [name |-> "reload"]
    \* self.memory is a new list of new dicts: a context keeps the old dict
    /\ run' = [run EXCEPT !.full_entry_at = 0]
    /\ UNCHANGED <<disk, feedbackFile, now, submitted, orphaned, runsStarted, calls,
                   threads>>

\* save_memory(entries) with any outcome of its write
save_memory_try(entries, outcome) ==
    /\ memory' = SavedMemory(memory, entries)
    /\ disk' = Written(disk, memory', outcome)
    /\ op' = [name |-> "save_memory", n |-> Len(entries),
              ids |-> {entries[i].case_number : i \in 1..Len(entries)},
              outcome |-> outcome, raised |-> WriteRaises(outcome)]
    /\ UNCHANGED <<feedbackFile, now, submitted, orphaned, RunVars, threads>>

\* submit_feedback(...) with any outcome of its write of storage_path
submit_feedback_try(case_number, feedback_type, ai_output, analyst_correction, confidence_score, text, embedding, outcome) ==
    /\ feedbackFile' =
            WrittenFeedbacks(feedbackFile,
                             FeedbackEntry(case_number, feedback_type, ai_output,
                                           analyst_correction, confidence_score,
                                           now))
    /\ memory' = FeedbackMemory(memory, case_number, feedback_type, ai_output,
                                analyst_correction, text, embedding, now)
    /\ disk' = Written(disk, memory', outcome)
    /\ now' = now + 1
    /\ op' = [name |-> "submit_feedback", case_number |-> case_number,
              feedback_type |-> feedback_type,
              analyst_correction |-> analyst_correction,
              supplied |-> TruthyList(text) /\ TruthyList(embedding),
              outcome |-> outcome, raised |-> WriteRaises(outcome)]
    /\ submitted' = [submitted EXCEPT ![case_number] = @ + 1]
    /\ orphaned' = IF case_number \in CaseNumbers(memory') THEN orphaned
                   ELSE orphaned \cup {case_number}
    /\ run' = Referenced(run, memory')
    /\ UNCHANGED <<runsStarted, calls, threads>>

\* the process dies in the write of a save_memory(entries), after open has
\* truncated the file or in the middle of json.dump, and is started again:
\* the new MemoryManager loads what is at storage_path
crash_in_save_memory(entries, partial) ==
    /\ disk' = [state |-> IF partial THEN "partial" ELSE "empty", data |-> <<>>]
    /\ memory' = LoadMemory(disk')
    /\ op' = [name |-> "crash", previous |-> disk,
              next |-> DumpMemory(SavedMemory(memory, entries))]
    /\ UNCHANGED <<feedbackFile, now, submitted, orphaned, RunVars, threads>>

\* MemoryManager.get_memory_stats()
get_memory_stats ==
    /\ op' = [name |-> "get_memory_stats", stats |-> MemoryStats(memory)]
    /\ UNCHANGED <<memory, disk, feedbackFile, now, submitted, orphaned, RunVars,
                   threads>>

\* the session threads that call the store, and a thread that has made no call
ThreadIds == 1..MaxThreads

Idle == [pc |-> "idle"]

----------------------------------------------------------------------------
(* A run of the graph, one node per step *)

StoreVars == <<memory, disk, feedbackFile, now, submitted, orphaned>>

\* InvestigationGraph.run(ticket_id, log_data), once no run is in flight
start_run(ticket_id, log_data) ==
    /\ run.pc \in {"none", "END", "aborted"}
    /\ runsStarted < MaxRuns
    /\ run' = InitialState(ticket_id, log_data)
    /\ runsStarted' = runsStarted + 1
    /\ calls' = {}
    /\ op' = [name |-> "run", ticket_id |-> ticket_id]
    /\ UNCHANGED <<StoreVars, threads>>

\* the status messages of the nodes
StatusIngest == "Fetching Ticket Data..."

StatusVisuals == "Inspecting Attachments & Screenshots..."

StatusMemory == "Querying Semantic Memory..."

StatusRca == "Generating Autonomous RCA..."

StatusLogs == "Correlating Log Evidence..."

StatusFinal == "Finalizing Deep Investigation..."

\* mutant: a ticket that was not found is investigated all the same
IngestTicket_IgnoresMissing(state, found) ==
    [Call(Enter(state, "ingest_ticket", StatusIngest), "get_full_ticket_data")
       EXCEPT !.ticket_data = <<"ticket", state.ticket_id>>,
              !.case_obj = [Id |-> state.ticket_id],
              !.pc = "extract_visuals"]

\* node_ingest_ticket, get_full_ticket_data having found the ticket or not
IngestTicket(state, found) ==
    LET entered == Call(Enter(state, "ingest_ticket", StatusIngest),
                        "get_full_ticket_data")
    IN  IF found
        THEN [entered EXCEPT !.ticket_data = <<"ticket", state.ticket_id>>,
                             !.case_obj = [Id |-> state.ticket_id],
                             !.pc = "extract_visuals"]
        ELSE Abort(entered)

node_ingest_ticket ==
    /\ run.pc = "ingest_ticket"
    /\ \E found \in BOOLEAN :
          /\ run' = IngestTicket(run, found)
          /\ op' = [name |-> "ingest_ticket", ok |-> found]
    /\ calls' = calls \cup {"get_full_ticket_data"}
    /\ UNCHANGED <<runsStarted, StoreVars, threads>>

\* the attachment lists fetch_case_attachments may return
AttachmentLists == {<<>>, <<"A1">>, <<"A1", "A2">>}

\* mutant: every attachment is downloaded, and a failure ends the run
ExtractVisuals_Strict(state, attachments, downloaded, extracted) ==
    LET entered == Call(Enter(state, "extract_visuals", StatusVisuals),
                        "fetch_case_attachments")
    IN  IF attachments = <<>>
        THEN [entered EXCEPT !.vision_data = NoneDict, !.pc = "query_memory"]
        ELSE [Call(Call(entered, "get_attachment_content"), "vision_extract")
                EXCEPT !.downloaded = attachments,
                       !.vision_data = IF downloaded /\ extracted THEN VisionData
                                       ELSE NoneDict,
                       !.pc = IF downloaded /\ extracted THEN "query_memory"
                              ELSE "aborted"]

\* node_extract_visuals: the first attachment, if any, is downloaded
\* (get_attachment_content returns None when it fails) and read
\* (vision_extract returns None for no image and when it fails)
ExtractVisuals(state, attachments, downloaded, extracted) ==
    LET entered == Call(Enter(state, "extract_visuals", StatusVisuals),
                        "fetch_case_attachments")
    IN  IF attachments = <<>>
        THEN [entered EXCEPT !.vision_data = NoneDict, !.pc = "query_memory"]
        ELSE LET attach == attachments[1]
                 img_base64 == IF downloaded THEN <<"image", attach>> ELSE <<>>
                 vision_data == IF TruthyList(img_base64) /\ extracted
                                THEN VisionData ELSE NoneDict
             IN  [Call(Call(entered, "get_attachment_content"), "vision_extract")
                    EXCEPT !.downloaded = Append(@, attach),
                           !.vision_data = vision_data,
                           !.pc = "query_memory"]

node_extract_visuals ==
    /\ run.pc = "extract_visuals"
    /\ \E attachments \in AttachmentLists, downloaded \in BOOLEAN,
          extracted \in BOOLEAN :
          \* what did not happen has one outcome only
          /\ attachments = <<>> => ~downloaded
          /\ ~downloaded => ~extracted
          /\ run' = ExtractVisuals(run, attachments, downloaded, extracted)
          /\ calls' = calls \cup {run'.called[i] : i \in 1..Len(run'.called)}
          /\ op' = [name |-> "extract_visuals", ok |-> TRUE,
                    attachments |-> Len(attachments),
                    downloaded |-> downloaded, extracted |-> extracted]
    /\ UNCHANGED <<runsStarted, StoreVars, threads>>

\* mutant: the first stored entry is the context, matched or not
SimilarityContext_FirstEntry(memory_entries, found) ==
    IF memory_entries = <<>> THEN NoneDict
    ELSE [ticket_number |-> memory_entries[1].case_number,
          score |-> RoundedScore(found.score),
          content |-> memory_entries[1].text,
          full_entry |-> memory_entries[1]]

\* the similarity_context of a match: memory_entries[match] with its score
SimilarityContext(memory_entries, found) ==
    IF found.match = 0 THEN NoneDict
    ELSE [ticket_number |-> memory_entries[found.match].case_number,
          score |-> RoundedScore(found.score),
          content |-> memory_entries[found.match].text,
          full_entry |-> memory_entries[found.match]]

\* node_query_memory, get_embedding having returned or raised
QueryMemory(state, memory_entries, embedded) ==
    LET entered == Call(Enter(state, "query_memory", StatusMemory), "get_embedding")
        text_for_embedding == TextOf(state.ticket_id, state.vision_data)
        current_embedding == EmbeddingOf(text_for_embedding)
    IN  CHOOSE returned \in
          {IF ~embedded \/ Has(found, "raised") THEN Abort(entered)
           ELSE [entered EXCEPT
                   !.text_for_embedding = text_for_embedding,
                   !.current_embedding = current_embedding,
                   !.similarity_context = SimilarityContext(memory_entries, found),
                   !.full_entry_at = found.match,
                   !.pc = "generate_rca"] :
             found \in {find_most_similar_semantic(DefaultThreshold,
                                                   current_embedding,
                                                   memory_entries)}} : TRUE

node_query_memory ==
    /\ run.pc = "query_memory"
    /\ \E embedded \in BOOLEAN :
          /\ run' = QueryMemory(run, memory, embedded)
          /\ op' = [name |-> "query_memory", ok |-> run'.pc # "aborted"]
    /\ calls' = calls \cup {"get_embedding"}
    /\ UNCHANGED <<runsStarted, StoreVars, threads>>

\* Python's "a or b" on optional strings
Or(a, b) == IF TruthyStr(a) THEN a ELSE b

\* mutant: the prompt takes the AI fields first
HistoricalContext_AiFirst(historical_context) ==
    IF ~TruthyDict(historical_context) THEN NoneDict
    ELSE LET match_entry == Get(historical_context, "full_entry", <<>>)
         IN  [corrected |-> Get(match_entry, "analyst_root_cause", None) # None,
              reference |-> historical_context.ticket_number,
              h_rc |-> Or(Get(match_entry, "ai_root_cause", None),
                          Or(Get(match_entry, "analyst_root_cause", None), "N/A")),
              h_res |-> Or(Get(match_entry, "ai_resolution", None),
                           Or(Get(match_entry, "analyst_resolution", None), "N/A"))]

\* the historical part of the prompt analyze_ticket sends: its title
\* (analyst corrected or AI generated), the reference, the previous root
\* cause and the previous resolution; NoneDict when there is no context
HistoricalContext(historical_context) ==
    IF ~TruthyDict(historical_context) THEN NoneDict
    ELSE LET match_entry == Get(historical_context, "full_entry", <<>>)
         IN  [corrected |-> Get(match_entry, "analyst_root_cause", None) # None,
              reference |-> historical_context.ticket_number,
              h_rc |-> Or(Get(match_entry, "analyst_root_cause", None),
                          Or(Get(match_entry, "ai_root_cause", None), "N/A")),
              h_res |-> Or(Get(match_entry, "analyst_resolution", None),
                           Or(Get(match_entry, "ai_resolution", None), "N/A"))]

\* the result of analyze_ticket, after _validate_and_parse
InitialRca(confidence_score) ==
    [probableRootCause |-> "AI RC", recommendedSteps |-> "AI RES",
     confidence_score |-> confidence_score]

\* mutant: the entry is registered without the analysis
RegistrationEntry_Bare(state, initial_rca) ==
    [case_number |-> state.ticket_id,
     text |-> state.text_for_embedding,
     embedding |-> state.current_embedding]

\* the entry node_generate_rca hands to save_memory
RegistrationEntry(state, initial_rca) ==
    [case_number |-> state.ticket_id,
     text |-> state.text_for_embedding,
     embedding |-> state.current_embedding,
     root_cause |-> Get(initial_rca, "probableRootCause", None),
     resolution |-> Get(initial_rca, "recommendedSteps", None)]

\* mutant: a confidence score the run was started with is kept
GenerateRca_KeepsScore(state, initial_rca) ==
    LET updated == [state EXCEPT
                      !.initial_rca = initial_rca,
                      !.confidence_score =
                          IF @ # 0 THEN @
                          ELSE Get(initial_rca, "confidence_score", 0)]
    IN  [updated EXCEPT !.pc = AfterRca(updated)]

\* node_generate_rca once analyze_ticket has returned initial_rca
GenerateRca(state, initial_rca) ==
    LET updated == [state EXCEPT
                      !.initial_rca = initial_rca,
                      !.confidence_score = Get(initial_rca, "confidence_score", 0)]
    IN  [updated EXCEPT !.pc = AfterRca(updated)]

node_generate_rca ==
    /\ run.pc = "generate_rca"
    /\ LET entered == Call(Enter(run, "generate_rca", StatusRca), "analyze_ticket")
       IN  \/ \E confidence_score \in ConfidenceScores :
                LET initial_rca == InitialRca(confidence_score)
                IN  /\ memory' = SavedMemory(memory,
                                             <<RegistrationEntry(run, initial_rca)>>)
                    /\ disk' = DumpMemory(memory')
                    /\ run' = GenerateRca(entered, initial_rca)
                    /\ op' = [name |-> "generate_rca", ok |-> TRUE,
                              historical |->
                                  HistoricalContext(run.similarity_context)]
           \/ \* analyze_ticket raises
              /\ run' = Abort(entered)
              /\ op' = [name |-> "generate_rca", ok |-> FALSE,
                        historical |-> HistoricalContext(run.similarity_context)]
              /\ UNCHANGED <<memory, disk>>
    /\ calls' = calls \cup {"analyze_ticket"}
    /\ UNCHANGED <<runsStarted, feedbackFile, now, submitted, orphaned, threads>>

\* the result of reanalyze_with_logs, after _validate_and_parse
EnhancedRca(confidence_score) ==
    [enhanced_root_cause |-> "Enhanced RC",
     enhanced_confidence_score |-> confidence_score]

\* mutant: the result of the re-analysis is not kept
AnalyzeLogs_Discarded(state, parsed, enhanced_rca) ==
    LET entered == Call(Enter(state, "analyze_logs", StatusLogs), "log_parser.parse")
    IN  IF ~parsed THEN Abort(entered)
        ELSE LET asked == Call(Call(entered, "log_parser.format_for_ai"),
                               "reanalyze_with_logs")
             IN  IF enhanced_rca = NoneDict THEN Abort(asked)
                 ELSE [asked EXCEPT !.log_summary = ParseLog(state.log_data),
                                    !.pc = "synthesize_findings"]

\* node_analyze_logs: the parser and the re-analysis return or raise
AnalyzeLogs(state, parsed, enhanced_rca) ==
    LET entered == Call(Enter(state, "analyze_logs", StatusLogs), "log_parser.parse")
        summary == ParseLog(state.log_data)
    IN  IF ~parsed THEN Abort(entered)
        ELSE LET asked == Call(Call(entered, "log_parser.format_for_ai"),
                               "reanalyze_with_logs")
             IN  IF enhanced_rca = NoneDict THEN Abort(asked)
                 ELSE [asked EXCEPT
                         !.log_summary = summary,
                         !.enhanced_rca = enhanced_rca,
                         !.confidence_score =
                             Get(enhanced_rca, "enhanced_confidence_score",
                                 state.confidence_score),
                         !.pc = "synthesize_findings"]

node_analyze_logs ==
    /\ run.pc = "analyze_logs"
    /\ \E parsed \in BOOLEAN,
          enhanced_rca \in {NoneDict} \cup {EnhancedRca(c) : c \in ConfidenceScores} :
          \* what did not happen has one outcome only
          /\ ~parsed => enhanced_rca = NoneDict
          /\ run' = AnalyzeLogs(run, parsed, enhanced_rca)
          /\ calls' = calls \cup {run'.called[i] : i \in 1..Len(run'.called)}
          /\ op' = [name |-> "analyze_logs", ok |-> run'.pc # "aborted"]
    /\ UNCHANGED <<runsStarted, StoreVars, threads>>

node_synthesize_findings ==
    /\ run.pc = "synthesize_findings"
    /\ run' = [Enter(run, "synthesize_findings", StatusFinal) EXCEPT !.pc = "END"]
    /\ op' = [name |-> "synthesize_findings", ok |-> TRUE]
    /\ UNCHANGED <<runsStarted, calls, StoreVars, threads>>

----------------------------------------------------------------------------
(* The specification *)

Init ==
    /\ disk \in InitialDisks
    /\ memory = LoadMemory(disk)
    /\ feedbackFile = <<>>
    /\ now = 1
    /\ run = NoRun
    /\ runsStarted = 0
    /\ calls = {}
    /\ op = [name |-> "init"]
    /\ submitted = [t \in Tickets |-> 0]
    /\ orphaned = {}
    /\ threads = [th \in ThreadIds |-> Idle]

\* a feedback call of any caller
AnyFeedback ==
    \E case_number \in FeedbackTickets, kind \in FeedbackKinds,
       ai_output \in AiOutputs, supplied \in BOOLEAN :
        submit_feedback(case_number, kind[1], ai_output, kind[2], None,
                        IF supplied THEN TextOf(case_number, NoneDict) ELSE <<>>,
                        IF supplied THEN EmbeddingOf(TextOf(case_number, NoneDict))
                        ELSE <<>>)

Feedback == now <= MaxFeedback /\ AnyFeedback

Upsert == \E entries \in UpsertBatches : save_memory(entries)

\* the store under any sequence of calls
Next ==
    \/ Feedback
    \/ Upsert
    \/ reload

Spec == Init /\ [][Next]_vars

RunFeedback == now <= MaxRunFeedback /\ AnyFeedback

StartRun ==
    \E ticket_id \in Tickets, log_data \in LogInputs :
        start_run(ticket_id, log_data)

\* runs of the graph, one at a time, and the feedback given meanwhile
NextRun ==
    \/ StartRun
    \/ node_ingest_ticket
    \/ node_extract_visuals
    \/ node_query_memory
    \/ node_generate_rca
    \/ node_analyze_logs
    \/ node_synthesize_findings
    \/ RunFeedback

SpecRun == Init /\ [][NextRun]_vars

\* a node of the graph
Node ==
    \/ node_ingest_ticket
    \/ node_extract_visuals
    \/ node_query_memory
    \/ node_generate_rca
    \/ node_analyze_logs
    \/ node_synthesize_findings

\* workflow.invoke runs the graph node after node until END or an exception
SpecRunFair == SpecRun /\ WF_vars(Node)

\* InvestigationGraph.run for the ticket of the run before, or for a first one
run_again(ticket_id, log_data) ==
    /\ run.pc \in {"none", "END", "aborted"}
    /\ runsStarted <= MaxReruns
    /\ runsStarted > 0 => ticket_id = run.ticket_id
    \* the application starts the second run with the confidence score of
    \* the first analysis, 0.0 without one; "earlier" is no key of the state:
    \* it remembers the comparison text of the run before, whether its
    \* generate_rca had registered the ticket, and the score supplied
    /\ run' = IF runsStarted = 0 THEN InitialState(ticket_id, log_data)
              ELSE LET supplied == IF run.initial_rca = NoneDict THEN 0
                                   ELSE Get(run.initial_rca, "confidence_score", 0)
                   IN  Put([InitialState(ticket_id, log_data)
                              EXCEPT !.confidence_score = supplied],
                           "earlier",
                           [text |-> run.text_for_embedding,
                            registered |-> run.initial_rca # NoneDict,
                            confidence_score |-> supplied])
    /\ runsStarted' = runsStarted + 1
    /\ calls' = {}
    /\ op' = [name |-> "run", ticket_id |-> ticket_id]
    /\ UNCHANGED <<StoreVars, threads>>

RunAgain ==
    \E ticket_id \in FeedbackTickets, log_data \in LogInputs :
        run_again(ticket_id, log_data)

\* a ticket is investigated, and investigated again, feedback in between
NextRerun ==
    \/ RunAgain
    \/ Node
    \/ RunFeedback

SpecRerun == Init /\ [][NextRerun]_vars

----------------------------------------------------------------------------
(* The SimilarityEngine by itself: one call of cosine_similarity or of       *)
(* find_most_similar_semantic, on inputs drawn from the sets below.          *)

\* 0.6, the threshold of the tests, and -0.5, as float64
TestThreshold == [sign |-> 1, m |-> <<13107, 3276, 13107, 1228>>, e |-> -53]

MinusHalf == [sign |-> -1, m |-> <<0, 0, 0, 1024>>, e |-> -53]

Thresholds == {DefaultThreshold, TestThreshold, DblZero, MinusHalf}

Components == {-1, 0, 1}

\* vectors handed to cosine_similarity: None, the empty list, vectors of two
\* and of three dimensions
SimVectors ==
    {NoneList, <<>>} \cup Embeddings
    \cup {<<x, y>> : x \in Components, y \in Components}
    \cup {<<1, 1, 1>>, <<1, 0, 0>>, <<0, 1, 0>>, <<0, 0, 0>>}

\* the embedding of the query and those of the stored entries
QueryEmbeddings == {NoneList, <<>>} \cup Embeddings

\* a stored entry: NoneList stands for an entry without "embedding"
Candidate(i, embedding) ==
    IF embedding = NoneList THEN [case_number |-> <<"E", i>>]
    ELSE [case_number |-> <<"E", i>>, embedding |-> embedding]

CandidateLists ==
    {<<>>}
    \cup {<<Candidate(1, e)>> : e \in QueryEmbeddings}
    \cup {<<Candidate(1, e1), Candidate(2, e2)>> :
            e1 \in QueryEmbeddings, e2 \in QueryEmbeddings}

InitSim == Init /\ disk.state = "absent"

call_cosine_similarity ==
    /\ op.name = "init"
    /\ \E vec1 \in SimVectors, vec2 \in SimVectors :
          op' = [name |-> "cosine_similarity", vec1 |-> vec1, vec2 |-> vec2,
                 result |-> cosine_similarity(vec1, vec2)]
    /\ UNCHANGED <<run, runsStarted, calls, StoreVars, threads>>

call_find_most_similar_semantic ==
    /\ op.name = "init"
    /\ \E threshold \in Thresholds, current_embedding \in QueryEmbeddings,
          memory_entries \in CandidateLists :
          op' = [name |-> "find_most_similar_semantic", threshold |-> threshold,
                 current_embedding |-> current_embedding,
                 memory_entries |-> memory_entries,
                 result |-> find_most_similar_semantic(threshold, current_embedding,
                                                       memory_entries)]
    /\ UNCHANGED <<run, runsStarted, calls, StoreVars, threads>>

NextSim ==
    \/ call_cosine_similarity
    \/ call_find_most_similar_semantic

SpecSim == InitSim /\ [][NextSim]_vars

----------------------------------------------------------------------------
(* The store constructed on a document of any age: each record of the        *)
(* document has some of the newer fields and lacks the others.               *)

NewerFields ==
    {"ai_root_cause", "ai_resolution", "analyst_root_cause",
     "analyst_resolution", "verified", "reliability_score", "feedback_count"}

\* a record a store of the current schema has written, after feedback
CurrentEntry(t) ==
    [case_number |-> t, text |-> TextOf(t, NoneDict),
     embedding |-> EmbeddingOf(TextOf(t, NoneDict)),
     ai_root_cause |-> "AI RC", ai_resolution |-> "AI RES",
     analyst_root_cause |-> "Analyst RC", analyst_resolution |-> "Analyst RES",
     verified |-> TRUE, reliability_score |-> F_1_0, feedback_count |-> 2]

\* the record with the newer fields of `present` only, with or without the
\* root_cause and resolution of the first schema
AgedEntry(t, present, legacy) ==
    LET kept == [k \in (DOMAIN CurrentEntry(t)) \ (NewerFields \ present) |->
                    CurrentEntry(t)[k]]
    IN  IF legacy THEN Put(Put(kept, "root_cause", "Old RC"), "resolution", "Old RES")
        ELSE kept

AgedDisks ==
    {[state |-> "absent", data |-> <<>>], [state |-> "empty", data |-> <<>>]}
    \cup {[state |-> "json", data |-> <<AgedEntry("T1", present, legacy)>>] :
            present \in SUBSET NewerFields, legacy \in BOOLEAN}

InitLoad ==
    /\ disk \in AgedDisks
    /\ memory = LoadMemory(disk)
    /\ feedbackFile = <<>>
    /\ now = 1
    /\ run = NoRun
    /\ runsStarted = 0
    /\ calls = {}
    /\ op = [name |-> "init"]
    /\ submitted = [t \in Tickets |-> 0]
    /\ orphaned = {}
    /\ threads = [th \in ThreadIds |-> Idle]

\* the store is reloaded, and written back by a save_memory with nothing or
\* with another ticket to add
NextLoad ==
    \/ reload
    \/ \E entries \in {<<>>, <<UpsertEntry("T2", None)>>} : save_memory(entries)

SpecLoad == InitLoad /\ [][NextLoad]_vars

----------------------------------------------------------------------------
(* The sidebar of app.py reads get_memory_stats between the calls that      *)
(* change the store; three tickets, so that the mean is taken over three    *)
(* scores.                                                                   *)

StatsTickets == {"T1", "T2", "T3"}

InitStats ==
    /\ disk \in InitialDisks
    /\ memory = LoadMemory(disk)
    /\ feedbackFile = <<>>
    /\ now = 1
    /\ run = NoRun
    /\ runsStarted = 0
    /\ calls = {}
    /\ op = [name |-> "init"]
    /\ submitted = [t \in StatsTickets |-> 0]
    /\ orphaned = {}
    /\ threads = [th \in ThreadIds |-> Idle]

StatsFeedback ==
    /\ now <= MaxStatsFeedback
    /\ \E case_number \in StatsTickets, kind \in FeedbackKinds,
          ai_output \in AiOutputs :
            submit_feedback(case_number, kind[1], ai_output, kind[2], None,
                            TextOf(case_number, NoneDict),
                            EmbeddingOf(TextOf(case_number, NoneDict)))

StatsUpsert == \E t \in StatsTickets : save_memory(<<UpsertEntry(t, None)>>)

NextStats ==
    \/ StatsFeedback
    \/ StatsUpsert
    \/ get_memory_stats

SpecStats == InitStats /\ [][NextStats]_vars

----------------------------------------------------------------------------
(* The "Sync & Backfill Knowledge" button of app.py, and the feedback given *)
(* on the records it has stored.                                            *)

\* the entry the backfill builds for a historical case
BackfillEntry(case_num) ==
    [case_number |-> case_num,
     text |-> TextOf(case_num, NoneDict),
     embedding |-> EmbeddingOf(TextOf(case_num, NoneDict)),
     root_cause |-> "N/A (Historical)",
     resolution |-> "N/A (Historical)"]

\* new_entries: the historical cases from i on that have no entry in memory
RECURSIVE NewEntries(_, _, _)
NewEntries(historical_cases, mem, i) ==
    IF i > Len(historical_cases) THEN <<>>
    ELSE IF historical_cases[i] \in CaseNumbers(mem)
    THEN NewEntries(historical_cases, mem, i + 1)
    ELSE <<BackfillEntry(historical_cases[i])>>
         \o NewEntries(historical_cases, mem, i + 1)

\* what fetch_historical_cases returns
HistoricalCases == {<<>>, <<"T1">>, <<"T2", "T1">>}

\* the handler of the button: reload, fetch, save_memory of the new entries
sync_and_backfill(historical_cases) ==
    LET reloaded == LoadMemory(disk)
        new_entries == NewEntries(historical_cases, reloaded, 1)
    IN  /\ memory' = IF new_entries # <<>> THEN SavedMemory(reloaded, new_entries)
                     ELSE reloaded
        /\ disk' = IF new_entries # <<>> THEN DumpMemory(memory') ELSE disk
        /\ op' = [name |-> "sync_and_backfill", n |-> Len(new_entries)]
        /\ UNCHANGED <<feedbackFile, now, submitted, orphaned, RunVars, threads>>

\* the AI snapshots the feedback calls carry
Snapshots ==
    AiOutputs \cup {[probableRootCause |-> "AI RC 2", recommendedSteps |-> "AI RES 2"]}

BackfillFeedback ==
    /\ now <= MaxBackfillFeedback
    /\ \E case_number \in FeedbackTickets, kind \in FeedbackKinds,
          ai_output \in Snapshots :
            submit_feedback(case_number, kind[1], ai_output, kind[2], None,
                            TextOf(case_number, NoneDict),
                            EmbeddingOf(TextOf(case_number, NoneDict)))

NextBackfill ==
    \/ \E historical_cases \in HistoricalCases : sync_and_backfill(historical_cases)
    \/ \E t \in Tickets : save_memory(<<UpsertEntry(t, None)>>)
    \/ BackfillFeedback

SpecBackfill == Init /\ [][NextBackfill]_vars

----------------------------------------------------------------------------
(* The store when the write of storage_path can raise (SpecFaulty), and     *)
(* when the process can also die in it (SpecCrash).                         *)

FaultyFeedback ==
    /\ now <= MaxFaultyFeedback
    /\ \E case_number \in FeedbackTickets, kind \in FeedbackKinds,
          ai_output \in AiOutputs, outcome \in WriteOutcomes :
            submit_feedback_try(case_number, kind[1], ai_output, kind[2], None,
                                TextOf(case_number, NoneDict),
                                EmbeddingOf(TextOf(case_number, NoneDict)),
                                outcome)

FaultyUpsert ==
    \E t \in Tickets, outcome \in WriteOutcomes :
        save_memory_try(<<UpsertEntry(t, None)>>, outcome)

Crash ==
    \E t \in Tickets, partial \in BOOLEAN :
        crash_in_save_memory(<<UpsertEntry(t, None)>>, partial)

NextFaulty ==
    \/ FaultyFeedback
    \/ FaultyUpsert
    \/ reload

SpecFaulty == Init /\ [][NextFaulty]_vars

NextCrash ==
    \/ FaultyFeedback
    \/ FaultyUpsert
    \/ reload
    \/ Crash

SpecCrash == Init /\ [][NextCrash]_vars

----------------------------------------------------------------------------
(* Concurrent callers.  get_clients() of app.py is a cache_resource: every   *)
(* session thread calls the one MemoryManager, which takes no lock.  A call  *)
(* is split where it opens a file or re-reads self.memory; the statements    *)
(* between two such points are taken as one step.                            *)

ThreadVars == <<run, runsStarted, calls, submitted, orphaned>>

\* submit_feedback, lines 79-93: feedback_entry is built, the log is read
submit_feedback_read(th, case_number, feedback_type, ai_output, analyst_correction, confidence_score, text, embedding) ==
    /\ threads[th].pc = "idle"
    /\ threads' = [threads EXCEPT ![th] =
            [pc |-> "sf_write", name |-> "submit_feedback",
             case_number |-> case_number, feedback_type |-> feedback_type,
             ai_output |-> ai_output, analyst_correction |-> analyst_correction,
             text |-> text, embedding |-> embedding,
             feedback_entry |->
                FeedbackEntry(case_number, feedback_type, ai_output,
                              analyst_correction, confidence_score, now),
             feedbacks |-> feedbackFile]]
    /\ now' = now + 1
    /\ op' = [name |-> "submit_feedback_read", thread |-> th]
    /\ UNCHANGED <<memory, disk, feedbackFile, ThreadVars>>

\* submit_feedback, lines 95-97: the list read, with the entry, is written
submit_feedback_write(th) ==
    /\ threads[th].pc = "sf_write"
    /\ feedbackFile' = WrittenFeedbacks(threads[th].feedbacks,
                                        threads[th].feedback_entry)
    /\ threads' = [threads EXCEPT ![th].pc = "sf_update"]
    /\ op' = [name |-> "submit_feedback_write", thread |-> th]
    /\ UNCHANGED <<memory, disk, now, ThreadVars>>

\* submit_feedback, lines 99-141: the record is updated or created
submit_feedback_update(th) ==
    /\ threads[th].pc = "sf_update"
    /\ memory' = FeedbackMemory(memory, threads[th].case_number,
                                threads[th].feedback_type, threads[th].ai_output,
                                threads[th].analyst_correction, threads[th].text,
                                threads[th].embedding,
                                threads[th].feedback_entry.timestamp)
    /\ threads' = [threads EXCEPT ![th].pc = "sf_dump"]
    /\ op' = [name |-> "submit_feedback_update", thread |-> th]
    /\ UNCHANGED <<disk, feedbackFile, now, ThreadVars>>

\* submit_feedback, lines 143-147: self.memory is written to storage_path
submit_feedback_dump(th) ==
    /\ threads[th].pc = "sf_dump"
    /\ disk' = DumpMemory(memory)
    /\ threads' = [threads EXCEPT ![th].pc = "done"]
    /\ op' = [name |-> "submit_feedback_dump", thread |-> th]
    /\ UNCHANGED <<memory, feedbackFile, now, ThreadVars>>

\* save_memory, line 47: existing_numbers is computed
save_memory_scan(th, entries) ==
    /\ threads[th].pc = "idle"
    /\ threads' = [threads EXCEPT ![th] =
            [pc |-> "sm_loop", name |-> "save_memory", entries |-> entries,
             existing_numbers |-> CaseNumbers(memory)]]
    /\ op' = [name |-> "save_memory_scan", thread |-> th]
    /\ UNCHANGED <<memory, disk, feedbackFile, now, ThreadVars>>

\* save_memory, lines 49-65: the entries not in existing_numbers are appended
save_memory_loop(th) ==
    /\ threads[th].pc = "sm_loop"
    /\ memory' = SaveLoop(memory, threads[th].existing_numbers,
                          threads[th].entries)
    /\ threads' = [threads EXCEPT ![th].pc = "sm_dump"]
    /\ op' = [name |-> "save_memory_loop", thread |-> th]
    /\ UNCHANGED <<disk, feedbackFile, now, ThreadVars>>

\* save_memory, lines 67-71: self.memory is written to storage_path
save_memory_dump(th) ==
    /\ threads[th].pc = "sm_dump"
    /\ disk' = DumpMemory(memory)
    /\ threads' = [threads EXCEPT ![th].pc = "done"]
    /\ op' = [name |-> "save_memory_dump", thread |-> th]
    /\ UNCHANGED <<memory, feedbackFile, now, ThreadVars>>

\* a session gives feedback on the ticket it shows (app.py, lines 256-282)
ThreadFeedback(th) ==
    \E case_number \in FeedbackTickets, feedback_type \in {"correct", "incorrect"},
       confidence_score \in ConfidenceScores :
        submit_feedback_read(th, case_number, feedback_type, InitialRca(confidence_score),
                             NoneDict, confidence_score,
                             TextOf(case_number, NoneDict),
                             EmbeddingOf(TextOf(case_number, NoneDict)))

\* a run registers its ticket (node_generate_rca, lines 143-150)
ThreadUpsert(th) ==
    \E ticket_id \in Tickets :
        save_memory_scan(th, <<UpsertEntry(ticket_id, "AI RC")>>)

\* the callers of the shared MemoryManager, interleaved
NextThreads ==
    \E th \in ThreadIds :
        \/ ThreadFeedback(th)
        \/ submit_feedback_write(th)
        \/ submit_feedback_update(th)
        \/ submit_feedback_dump(th)
        \/ ThreadUpsert(th)
        \/ save_memory_loop(th)
        \/ save_memory_dump(th)

SpecThreads == Init /\ [][NextThreads]_vars

----------------------------------------------------------------------------
(* Properties of the knowledge store *)

IsPrefix(s, t) == Len(s) <= Len(t) /\ SubSeq(t, 1, Len(s)) = s

\* the records of a list with that case number
RecordsOf(mem, case_number) ==
    {i \in 1..Len(mem) : mem[i].case_number = case_number}

\* the entries of the audit log with that case number
LogEntriesOf(log, case_number) ==
    {i \in 1..Len(log) : log[i].case_number = case_number}

InRange(r) == FLeq(F_0_3, r) /\ FLeq(r, F_1_0)

\* the last step was a feedback call of that type
FeedbackDone(feedback_type) ==
    op.name = "submit_feedback" /\ op.feedback_type = feedback_type

\* C1: every record of the store, in memory and in the persisted snapshot,
\* has a reliability score in [0.3, 1.0], whatever calls were made.
C1_ReliabilityInRange ==
    /\ \A i \in 1..Len(memory) : InRange(memory[i].reliability_score)
    /\ \A i \in 1..Len(disk.data) :
          Has(disk.data[i], "reliability_score")
              => InRange(disk.data[i].reliability_score)

\* a third "incorrect" in a row has left the record at the floor
C1_Witness ==
    /\ FeedbackDone("incorrect")
    /\ \E i \in 1..Len(memory) :
          /\ memory[i].feedback_count = 3
          /\ memory[i].reliability_score = F_0_3
    /\ \A k \in 1..Len(feedbackFile) : feedbackFile[k].feedback_type = "incorrect"

\* C2 as stated: after an "edited" feedback call every record of that case
\* number has reliability 1.0 and is verified.
C2_EditedAlwaysGold ==
    FeedbackDone("edited") =>
        \A i \in RecordsOf(memory, op.case_number) :
            memory[i].reliability_score = F_1_0 /\ memory[i].verified

\* C2 amended: after an "edited" feedback call that carries a correction,
\* every record of that case number has reliability 1.0 and is verified.
C2_EditedWithCorrectionGold ==
    (FeedbackDone("edited") /\ TruthyDict(op.analyst_correction)) =>
        \A i \in RecordsOf(memory, op.case_number) :
            memory[i].reliability_score = F_1_0 /\ memory[i].verified

\* a record marked incorrect before is corrected by the analyst
C2_Witness ==
    /\ FeedbackDone("edited") /\ TruthyDict(op.analyst_correction)
    /\ Len(feedbackFile) >= 2
    /\ feedbackFile[Len(feedbackFile) - 1].feedback_type = "incorrect"
    /\ \E i \in RecordsOf(memory, op.case_number) :
          /\ memory[i].feedback_count >= 2
          /\ memory[i].reliability_score = F_1_0
          /\ memory[i].verified

\* C3: a "correct" feedback call on a stored record of reliability r sets
\* verified, sets the reliability to min(1.0, r + 0.05), which is above r
\* when r < 1.0, and leaves the number of records unchanged.
C3_CorrectBoosts ==
    [][(op'.name = "submit_feedback" /\ op'.feedback_type = "correct"
        /\ FirstIndex(memory, op'.case_number) # 0) =>
          LET i == FirstIndex(memory, op'.case_number)
              r == memory[i].reliability_score
              sum == FAdd(r, F_0_05)
          IN  /\ Len(memory') = Len(memory)
              /\ memory'[i].verified
              /\ memory'[i].reliability_score =
                    (IF FLess(sum, F_1_0) THEN sum ELSE F_1_0)
              /\ FLess(r, F_1_0) => FLess(r, memory'[i].reliability_score)]_vars

\* a record below 1.0 was boosted, and one that was capped exists as well
C3_Witness ==
    /\ FeedbackDone("correct")
    /\ \E i \in RecordsOf(memory, op.case_number) :
          /\ memory[i].feedback_count = 2
          /\ memory[i].reliability_score = F_1_0
          /\ feedbackFile[1].feedback_type = "edited"

\* C4 as stated, in its example: "incorrect" takes a reliability of 0.7 to 0.5.
C4_ExampleHalf ==
    [][(op'.name = "submit_feedback" /\ op'.feedback_type = "incorrect"
        /\ FirstIndex(memory, op'.case_number) # 0
        /\ memory[FirstIndex(memory, op'.case_number)].reliability_score = F_0_7)
          => memory'[FirstIndex(memory, op'.case_number)].reliability_score
                = F_0_5]_vars

\* C4 amended: an "incorrect" feedback call on a stored record of reliability
\* r clears verified and sets the reliability to the float max(0.3, r - 0.20),
\* which is below 0.5 for r = 0.7, is 0.3 for every r <= 0.5, and stays 0.3.
C4_IncorrectCuts ==
    [][(op'.name = "submit_feedback" /\ op'.feedback_type = "incorrect"
        /\ FirstIndex(memory, op'.case_number) # 0) =>
          LET i == FirstIndex(memory, op'.case_number)
              r == memory[i].reliability_score
              diff == FSub(r, F_0_20)
              new == memory'[i].reliability_score
          IN  /\ ~memory'[i].verified
              /\ new = (IF FLess(F_0_3, diff) THEN diff ELSE F_0_3)
              /\ r = F_0_7 => (FLess(new, F_0_5) /\ FLess(F_0_3, new))
              /\ FLeq(r, F_0_5) => new = F_0_3]_vars

\* 0.7 was cut once, and a record at the floor was cut again
C4_Witness ==
    /\ FeedbackDone("incorrect")
    /\ \E i \in RecordsOf(memory, op.case_number) :
          /\ memory[i].feedback_count = 1
          /\ FLess(memory[i].reliability_score, F_0_5)
          /\ FLess(F_0_3, memory[i].reliability_score)

\* C5 as stated: n >= 1 feedback calls for a case number leave n entries of
\* that case number in the audit log and exactly one record of it in the
\* store, whose feedback count is n.
C5_CountsAsStated ==
    \A t \in Tickets :
        submitted[t] >= 1 =>
            /\ Cardinality(LogEntriesOf(feedbackFile, t)) = submitted[t]
            /\ Cardinality(RecordsOf(memory, t)) = 1
            /\ \A i \in RecordsOf(memory, t) :
                  memory[i].feedback_count = submitted[t]

\* C5 amended: n >= 1 feedback calls for a case number leave n entries of
\* that case number in the audit log; if each call found the record or
\* created it, the store holds exactly one record of that case number and its
\* feedback count is n; otherwise it holds at most one, of a smaller count.
C5_Counts ==
    \A t \in Tickets :
        submitted[t] >= 1 =>
            /\ Cardinality(LogEntriesOf(feedbackFile, t)) = submitted[t]
            /\ t \notin orphaned =>
                  /\ Cardinality(RecordsOf(memory, t)) = 1
                  /\ \A i \in RecordsOf(memory, t) :
                        memory[i].feedback_count = submitted[t]
            /\ t \in orphaned =>
                  /\ Cardinality(RecordsOf(memory, t)) <= 1
                  /\ \A i \in RecordsOf(memory, t) :
                        memory[i].feedback_count < submitted[t]

\* three calls of three kinds for one case number
C5_Witness ==
    \E t \in Tickets :
        /\ submitted[t] = 3
        /\ t \notin orphaned
        /\ {feedbackFile[k].feedback_type : k \in LogEntriesOf(feedbackFile, t)}
              = {"correct", "incorrect", "edited"}
        /\ \E i \in RecordsOf(memory, t) : memory[i].feedback_count = 3

FirstOfBatch(entries, case_number) ==
    entries[CHOOSE i \in 1..Len(entries) :
                /\ entries[i].case_number = case_number
                /\ \A j \in 1..(i - 1) : entries[j].case_number # case_number]

\* C7: save_memory leaves every stored record as it was, in memory and in
\* the snapshot, adds one record per case number that was not stored, built
\* from the first entry of the batch with that case number, and so changes
\* nothing when every case number of the batch was stored.
C7_FirstWriteWins ==
    [][op'.name = "save_memory" =>
         LET fresh == op'.ids \ CaseNumbers(memory)
         IN  /\ Len(memory') = Len(memory) + Cardinality(fresh)
             /\ \A i \in 1..Len(memory) :
                   memory'[i] = memory[i] /\ disk'.data[i] = memory[i]
             /\ op'.ids \subseteq CaseNumbers(memory) => memory' = memory
             /\ fresh # {} =>
                   \A entries \in {b \in UpsertBatches : Len(b) = op'.n} :
                      save_memory(entries) =>
                         \A j \in (Len(memory) + 1)..Len(memory') :
                            /\ memory'[j].case_number \in fresh
                            /\ memory'[j] =
                                  NewEntry(FirstOfBatch(entries,
                                                        memory'[j].case_number))
      ]_vars

\* a batch naming a stored case number twice, after feedback on its record
C7_Witness ==
    /\ op.name = "save_memory"
    /\ op.n = 2
    /\ op.ids = {"T1"}
    /\ \E i \in RecordsOf(memory, "T1") :
          /\ memory[i].feedback_count >= 1
          /\ memory[i].analyst_root_cause = "Analyst RC"
          /\ memory[i].reliability_score = F_1_0
    /\ Len(memory) = 1

\* every caller has returned from its call
AllDone == \A th \in ThreadIds : threads[th].pc = "done"

\* the audit log holds the entry of that caller's feedback
Logged(th) ==
    \E i \in 1..Len(feedbackFile) : feedbackFile[i] = threads[th].feedback_entry

\* C8: once concurrent callers have all returned, nothing they did is lost:
\* the audit log holds the entry of every feedback call, and the persisted
\* snapshot is the list in memory and holds a record for every case number
\* that was upserted.
C8_NoLostUpdate ==
    AllDone =>
        /\ \A th \in ThreadIds :
              threads[th].name = "submit_feedback" => Logged(th)
        /\ \A th \in ThreadIds :
              threads[th].name = "save_memory" =>
                 \A i \in 1..Len(threads[th].entries) :
                    threads[th].entries[i].case_number \in CaseNumbers(disk.data)
        /\ disk = DumpMemory(memory)

----------------------------------------------------------------------------
(* Properties of a run *)

NodesWithoutLogs == <<"ingest_ticket", "extract_visuals", "query_memory",
                      "generate_rca", "synthesize_findings">>

NodeNames == {Nodes[i] : i \in 1..Len(Nodes)}

InOrder(visited) == IsPrefix(visited, Nodes) \/ IsPrefix(visited, NodesWithoutLogs)

\* C9: the nodes a run has executed are, in order, a prefix of Ingest,
\* ExtractVisuals, QueryMemory, GenerateRCA, AnalyzeLogs (or not), Synthesize;
\* the node to execute next continues that order; a run that has ended
\* normally has executed all of them, each once.
C9_StageOrder ==
    run.pc # "none" =>
        /\ InOrder(run.visited)
        /\ run.pc \in NodeNames => InOrder(Append(run.visited, run.pc))
        /\ run.pc = "END" => run.visited \in {Nodes, NodesWithoutLogs}

\* a run with logs has gone through all six nodes
C9_Witness == run.pc = "END" /\ run.visited = Nodes

LogCalls == {"log_parser.parse", "log_parser.format_for_ai", "reanalyze_with_logs"}

\* C10: a run started without log text (None or the empty string) never
\* calls the log parser nor reanalyze_with_logs, and ends with enhanced_rca
\* and log_summary absent.
C10_NoLogsNoReanalysis ==
    (run.pc # "none" /\ ~TruthyStr(run.log_data)) =>
        /\ calls \cap LogCalls = {}
        /\ "analyze_logs" \notin {run.visited[i] : i \in 1..Len(run.visited)}
        /\ run.enhanced_rca = NoneDict
        /\ run.log_summary = NoneDict

\* a run without logs has ended, on an analysis of low confidence
C10_Witness ==
    /\ run.pc = "END"
    /\ run.log_data = ""
    /\ run.confidence_score = 35
    /\ run.initial_rca # NoneDict
    /\ run.enhanced_rca = NoneDict

\* the place of the first occurrence of a message in status_updates, or 0
Position(status_updates, message) ==
    IF \A i \in 1..Len(status_updates) : status_updates[i] # message THEN 0
    ELSE CHOOSE i \in 1..Len(status_updates) :
            /\ status_updates[i] = message
            /\ \A j \in 1..(i - 1) : status_updates[j] # message

\* a run with log text, past its start
LogRun == run.pc \notin {"none"} /\ TruthyStr(run.log_data)

\* C11: a run started with log text ends, at END unless a collaborator
\* failed; at END its enhanced_rca is populated, and its status updates hold
\* the log-correlation message after the RCA-generation message and before
\* the finalization message.
C11_LogRunEnds ==
    /\ [](LogRun /\ run.pc = "END" =>
            /\ run.enhanced_rca # NoneDict
            /\ 0 < Position(run.status_updates, StatusRca)
            /\ Position(run.status_updates, StatusRca)
                  < Position(run.status_updates, StatusLogs)
            /\ Position(run.status_updates, StatusLogs)
                  < Position(run.status_updates, StatusFinal))
    /\ [][run.pc # "aborted" /\ run'.pc = "aborted" => ~op'.ok]_vars
    /\ (LogRun ~> run.pc \in {"END", "aborted"})

\* a run with log text has ended after a re-analysis
C11_Witness ==
    /\ LogRun
    /\ run.pc = "END"
    /\ run.enhanced_rca \in {EnhancedRca(c) : c \in ConfidenceScores}
    /\ run.status_updates[5] = StatusLogs

\* C12: the node that follows a successful generate_rca is analyze_logs if
\* the run was given non-empty log text and synthesize_findings otherwise,
\* whatever confidence score the analysis returned.
C12_BranchOnLogsOnly ==
    [][(op'.name = "generate_rca" /\ op'.ok) =>
          /\ run'.pc = IF TruthyStr(run.log_data) THEN "analyze_logs"
                       ELSE "synthesize_findings"
          /\ \A c \in ConfidenceScores :
                GenerateRca(run, InitialRca(c)).pc = run'.pc]_vars

\* an analysis of low confidence, without log text, is followed by
\* synthesize_findings
C12_Witness ==
    /\ op.name = "generate_rca"
    /\ run.pc = "synthesize_findings"
    /\ ~TruthyStr(run.log_data)
    /\ run.confidence_score = 35

\* the record a run registers for its ticket
Registered(state) ==
    [case_number |-> state.ticket_id,
     text |-> state.text_for_embedding,
     embedding |-> state.current_embedding,
     ai_root_cause |-> state.initial_rca.probableRootCause,
     ai_resolution |-> state.initial_rca.recommendedSteps,
     analyst_root_cause |-> None,
     analyst_resolution |-> None,
     verified |-> FALSE,
     reliability_score |-> F_0_7,
     feedback_count |-> 0]

C14_MissingTicketAborts ==
    [][/\ (op'.name = "ingest_ticket" /\ ~op'.ok) =>
             /\ run'.pc = "aborted"
             /\ run'.visited = <<"ingest_ticket">>
             /\ run'.called = <<"get_full_ticket_data">>
             /\ calls' = {"get_full_ticket_data"}
             /\ UNCHANGED <<memory, disk, feedbackFile>>
       /\ run.pc = "aborted" =>
             \/ run' = run
             \/ run' = InitialState(run'.ticket_id, run'.log_data)]_vars

\* a run has been aborted by a missing ticket
C14_Witness ==
    /\ op.name = "ingest_ticket"
    /\ ~op.ok
    /\ run.pc = "aborted"
    /\ run.ticket_data = None

\* the number of times a collaborator was called
Count(called, name) == Cardinality({i \in 1..Len(called) : called[i] = name})

\* C15: node_extract_visuals always hands the run over to query_memory,
\* with vision_data absent when the case has no attachment, when the
\* download failed or when the extraction failed; a run downloads at most
\* one attachment, the first of the case, and calls the vision service at
\* most once.
C15_VisualsNeverAbort ==
    [][/\ op'.name = "extract_visuals" =>
             /\ op'.ok
             /\ run'.pc = "query_memory"
             /\ (op'.attachments = 0 \/ ~op'.downloaded \/ ~op'.extracted) =>
                   run'.vision_data = NoneDict
             /\ run'.downloaded = IF op'.attachments = 0 THEN <<>> ELSE <<"A1">>
       /\ Len(run'.downloaded) <= 1
       /\ Count(run'.called, "get_attachment_content") <= 1
       /\ Count(run'.called, "vision_extract") <= 1]_vars

\* a case with two attachments, the extraction having failed, is past
\* extract_visuals
C15_Witness ==
    /\ op.name = "extract_visuals"
    /\ op.attachments = 2
    /\ op.downloaded
    /\ ~op.extracted
    /\ run.pc = "query_memory"
    /\ run.vision_data = NoneDict

FailingNodes == {"query_memory", "generate_rca", "analyze_logs"}

\* C16: when get_embedding raises in query_memory, analyze_ticket in
\* generate_rca, or the log parser or reanalyze_with_logs in analyze_logs,
\* the run is aborted there and the store is as it was (so a failed
\* generate_rca registers nothing); no collaborator is called twice in a
\* run; an aborted run never reaches END.
C16_FailureAborts ==
    [][/\ (op'.name \in FailingNodes /\ ~op'.ok) =>
             /\ run'.pc = "aborted"
             /\ run'.visited[Len(run'.visited)] = op'.name
             /\ UNCHANGED <<memory, disk, feedbackFile>>
       /\ \A name \in calls' : Count(run'.called, name) <= 1
       /\ run.pc = "aborted" => run'.pc \in {"aborted", "ingest_ticket"}]_vars

\* analyze_ticket has raised for a ticket the store does not hold
C16_Witness ==
    /\ op.name = "generate_rca"
    /\ ~op.ok
    /\ run.pc = "aborted"
    /\ Count(run.called, "analyze_ticket") = 1
    /\ run.ticket_id \notin CaseNumbers(memory)

----------------------------------------------------------------------------
(* Properties of the SimilarityEngine *)

\* the scores of the stored entries against the query
Scores(current_embedding, memory_entries) ==
    [i \in 1..Len(memory_entries) |->
        cosine_similarity(current_embedding,
                          Get(memory_entries[i], "embedding", NoneList))]

\* the first entry of the highest score
FirstMax(scores) ==
    CHOOSE i \in 1..Len(scores) :
        /\ \A j \in 1..Len(scores) : DblLeq(scores[j], scores[i])
        /\ \A j \in 1..(i - 1) : DblLess(scores[j], scores[i])

\* the result the claim C17 asks for, the entries having a score each
BestMatch(threshold, scores) ==
    IF DblLess(scores[FirstMax(scores)], threshold)
    THEN [match |-> 0, score |-> DblZero]
    ELSE [match |-> FirstMax(scores), score |-> scores[FirstMax(scores)]]

\* C17: find_most_similar_semantic returns (None, 0.0) if the highest score
\* of the entries is below the threshold, and otherwise the first entry of
\* the highest score with that score, for every threshold.
C17_BestMatch ==
    op.name = "find_most_similar_semantic" =>
        LET scores == Scores(op.current_embedding, op.memory_entries)
        IN  (scores # <<>> /\ \A i \in 1..Len(scores) : ~Has(scores[i], "raised")) =>
                op.result = BestMatch(op.threshold, scores)

\* absent, empty or of zero norm
Degenerate(vec) == vec = NoneList \/ vec = <<>> \/ Dot(vec, vec) = 0

\* C18: cosine_similarity returns 0.0, and does not raise, when one of the
\* vectors is None, empty or of zero norm; find_most_similar_semantic does
\* not raise when stored entries have no embedding, the others having one
\* of the query's length.
C18_FailsClosed ==
    /\ (op.name = "cosine_similarity"
          /\ (Degenerate(op.vec1) \/ Degenerate(op.vec2))) =>
            op.result = DblZero
    /\ (op.name = "find_most_similar_semantic"
          /\ \A i \in 1..Len(op.memory_entries) :
                Has(op.memory_entries[i], "embedding") =>
                    /\ op.current_embedding # NoneList
                    /\ Len(op.memory_entries[i].embedding)
                          = Len(op.current_embedding)) =>
            ~Has(op.result, "raised")

\* 1.0 and -1.0 as float64
DblOne == [sign |-> 1, m |-> <<0, 0, 0, 1024>>, e |-> -52]

DblMinusOne == [sign |-> -1, m |-> <<0, 0, 0, 1024>>, e |-> -52]

\* C19: for vectors of one length, cosine_similarity(v, v) is 1.0 for a
\* nonzero v, the score of two orthogonal nonzero vectors is 0.0, and every
\* score lies between -1.0 and 1.0.
C19_SimilarityLaws ==
    (/\ op.name = "cosine_similarity"
     /\ op.vec1 # NoneList
     /\ op.vec2 # NoneList
     /\ Len(op.vec1) = Len(op.vec2)) =>
        /\ (op.vec1 = op.vec2 /\ Dot(op.vec1, op.vec1) # 0) => op.result = DblOne
        /\ (/\ Dot(op.vec1, op.vec2) = 0
            /\ Dot(op.vec1, op.vec1) # 0
            /\ Dot(op.vec2, op.vec2) # 0) => op.result = DblZero
        /\ DblLeq(DblMinusOne, op.result)
        /\ DblLeq(op.result, DblOne)

----------------------------------------------------------------------------
(* Properties of the migration *)

\* C20: what a store holds is what loading its document gives, however
\* often the document was loaded and written back; migrating the migrated
\* records changes nothing; and a record of the document keeps, once
\* loaded, every field it had with the value it had.
C20_MigrationIdempotent ==
    /\ memory = LoadMemory(disk)
    /\ LoadMemory(DumpMemory(memory)) = memory
    /\ \A i \in 1..Len(memory) : MigrateEntry(memory[i]) = memory[i]
    /\ Len(memory) = Len(disk.data)
    /\ \A i \in 1..Len(disk.data) :
          /\ NewerFields \subseteq DOMAIN memory[i]
          /\ \A k \in DOMAIN disk.data[i] : memory[i][k] = disk.data[i][k]

\* a document whose record has the score but not the flag, nor the AI
\* fields, has been loaded a second time
C20_Witness ==
    /\ op.name = "reload"
    /\ disk.state = "json"
    /\ Has(disk.data[1], "reliability_score")
    /\ ~Has(disk.data[1], "verified")
    /\ ~Has(disk.data[1], "ai_root_cause")
    /\ Has(disk.data[1], "root_cause")
    /\ memory[1].reliability_score = F_1_0
    /\ memory[1].verified = FALSE
    /\ memory[1].ai_root_cause = "Old RC"

----------------------------------------------------------------------------
(* Properties of the feedback on a case number that is not stored *)

\* the score a fresh record starts with, by feedback kind
InitialReliability(feedback_type) ==
    IF feedback_type = "edited" THEN F_1_0
    ELSE IF feedback_type = "correct" THEN F_0_75
    ELSE F_0_5

\* C22: a feedback for a case number without a record, submitted with text
\* and embedding, adds exactly one record of that case number, with feedback
\* count 1, reliability 1.0 / 0.75 / 0.5 for edited / correct / incorrect and
\* verified for correct and edited only; submitted without them it leaves the
\* store as it is and still appends its FeedbackRecord to the audit log
C22_FreshRecord ==
    [][(op'.name = "submit_feedback" /\ now' = now + 1
        /\ op'.case_number \notin CaseNumbers(memory)) =>
          /\ Len(feedbackFile') = Len(feedbackFile) + 1
          /\ feedbackFile'[Len(feedbackFile')].case_number = op'.case_number
          /\ feedbackFile'[Len(feedbackFile')].feedback_type = op'.feedback_type
          /\ IF op'.supplied
             THEN /\ Len(memory') = Len(memory) + 1
                  /\ SubSeq(memory', 1, Len(memory)) = memory
                  /\ LET fresh == memory'[Len(memory')]
                     IN  /\ fresh.case_number = op'.case_number
                         /\ fresh.feedback_count = 1
                         /\ fresh.reliability_score =
                                InitialReliability(op'.feedback_type)
                         /\ fresh.verified =
                                (op'.feedback_type \in {"correct", "edited"})
             ELSE memory' = memory]_vars

\* two feedbacks without text and embedding have left the store empty
C22_WitnessUnsupplied ==
    /\ op.name = "submit_feedback"
    /\ Len(feedbackFile) = 2
    /\ feedbackFile[1].feedback_type = "incorrect"
    /\ memory = <<>>
    /\ ~op.supplied

\* an "incorrect" feedback with text and embedding has created the record
C22_Witness ==
    /\ op.name = "submit_feedback"
    /\ op.supplied
    /\ Len(feedbackFile) = 1
    /\ Len(memory) = 1
    /\ memory[1].reliability_score = F_0_5

----------------------------------------------------------------------------
(* Properties of the enrichment *)

\* the values an AI field has when no analysis has been stored in it: the
\* default of save_memory and of the migration, and the backfill's
Placeholder(x) == x \in {"N/A", "N/A (Historical)"}

\* C23: a feedback on a stored record whose AI root cause and resolution are
\* placeholders fills them from the submitted AI snapshot, and a feedback on a
\* record whose AI fields are not placeholders leaves them as they are
C23_OneTimeEnrichment ==
    [][(op'.name = "submit_feedback" /\ now' = now + 1
        /\ FirstIndex(memory, op'.case_number) # 0) =>
          LET i == FirstIndex(memory, op'.case_number)
              snapshot == feedbackFile'[Len(feedbackFile')]
          IN  /\ (Placeholder(memory[i].ai_root_cause)
                    /\ Placeholder(memory[i].ai_resolution)) =>
                      /\ memory'[i].ai_root_cause = snapshot.ai_root_cause
                      /\ memory'[i].ai_resolution = snapshot.ai_resolution
              /\ (~Placeholder(memory[i].ai_root_cause)
                    /\ ~Placeholder(memory[i].ai_resolution)) =>
                      /\ memory'[i].ai_root_cause = memory[i].ai_root_cause
                      /\ memory'[i].ai_resolution = memory[i].ai_resolution]_vars

----------------------------------------------------------------------------
(* Properties of the analyst's correction *)

----------------------------------------------------------------------------
(* Properties of the store under failures *)

\* C25: no record is ever deleted: a case number that is in the store is in
\* the store in every later state, also when a write or a load has failed
C25_NeverDeleted ==
    [][CaseNumbers(memory) \subseteq CaseNumbers(memory')]_vars

\* C29: when the write of the store raises during save_memory or
\* submit_feedback, the memory keeps the mutation and the failure is raised
\* to the caller
C29_FailureReported ==
    (op.name \in {"save_memory", "submit_feedback"} /\ Has(op, "outcome")
     /\ op.outcome # "written") =>
        /\ op.name = "save_memory" => op.ids \subseteq CaseNumbers(memory)
        /\ op.raised

\* C30: when the process dies in the write of the store, what is persisted
\* is the previous snapshot or the new one, complete: the load that follows
\* gives the records of the one or of the other
C30_AtomicWrite ==
    op.name = "crash" =>
        /\ memory = LoadMemory(disk)
        /\ memory \in {LoadMemory(op.previous), LoadMemory(op.next)}

----------------------------------------------------------------------------
(* Properties of the case numbers *)

\* C26: no two records of the store have the same case number, whatever the
\* upserts and feedback submissions and however their steps interleave
C26_UniqueCaseNumbers ==
    \A i, j \in 1..Len(memory) :
        memory[i].case_number = memory[j].case_number => i = j

----------------------------------------------------------------------------
(* Properties of a ticket investigated again *)

\* C27: once generate_rca has registered the ticket of a run, the record
\* stays in the store, also when the run is aborted afterwards; and the
\* registration by a run whose ticket is stored already leaves the store as
\* it is: the same number of records, every field of every record the same
C27_RegistrationIdempotent ==
    [][/\ (run'.initial_rca # NoneDict) => run'.ticket_id \in CaseNumbers(memory')
       /\ (op'.name = "generate_rca" /\ op'.ok
            /\ run.ticket_id \in CaseNumbers(memory)) => memory' = memory]_vars

\* the second run of a ticket has passed generate_rca, and the record, which
\* an "edited" feedback had corrected in between, is as the feedback left it
C27_Witness ==
    /\ op.name = "generate_rca"
    /\ op.ok
    /\ runsStarted = 2
    /\ Len(memory) = 1
    /\ memory[1].case_number = run.ticket_id
    /\ memory[1].ai_root_cause = "AI RC"
    /\ memory[1].feedback_count = 1
    /\ memory[1].verified
    /\ memory[1].reliability_score = F_1_0
    /\ memory[1].analyst_root_cause = Correction.root_cause

\* a run aborted in analyze_logs, after generate_rca, has left its record
C27_WitnessAborted ==
    /\ op.name = "analyze_logs"
    /\ run.pc = "aborted"
    /\ run.ticket_id \in CaseNumbers(memory)
    /\ memory[Len(memory)] = Registered(run)

\* C28: a node of a run leaves the audit log as it is, and leaves the store
\* as it is but for generate_rca, which may append one record, of the run's
\* own ticket, when the store has none of it; the records that were there
\* keep their place and every field
C28_RunFrame ==
    [][Node =>
          /\ feedbackFile' = feedbackFile
          /\ \/ memory' = memory
             \/ /\ op'.name = "generate_rca"
                /\ run.ticket_id \notin CaseNumbers(memory)
                /\ Len(memory') = Len(memory) + 1
                /\ SubSeq(memory', 1, Len(memory)) = memory
                /\ memory'[Len(memory')].case_number = run.ticket_id]_vars

\* a run of T2 has registered its ticket behind the record of T1, which a
\* feedback had changed and the run has not
C28_Witness ==
    /\ op.name = "generate_rca"
    /\ op.ok
    /\ run.ticket_id = "T2"
    /\ Len(memory) = 2
    /\ memory[1].case_number = "T1"
    /\ memory[1].feedback_count = 1
    /\ memory[2].case_number = "T2"
    /\ Len(feedbackFile) = 1

----------------------------------------------------------------------------
(* Properties of get_memory_stats *)

\* the exact sum of the scores of the entries from i on, in units of 2^-57
RECURSIVE ExactSum(_, _)
ExactSum(mem, i) ==
    IF i > Len(mem) THEN <<0, 0>>
    ELSE LET rest == ExactSum(mem, i + 1)
             lo == mem[i].reliability_score[2] + rest[2]
         IN  <<mem[i].reliability_score[1] + rest[1] + (lo \div LimbBase),
               lo % LimbBase>>

\* n * avg - total, in units of 2^-57, cut to 2^30 where it is larger
Excess(avg, n, total) ==
    LET lo == n * avg[2]
        hi == n * avg[1] + (lo \div LimbBase)
    IN  IF hi - total[1] > 1 THEN 2^30
        ELSE IF hi - total[1] < -1 THEN 0 - 2^30
        ELSE (hi - total[1]) * LimbBase + (lo % LimbBase) - total[2]

\* C21: get_memory_stats returns the number of records, the number of
\* verified records and the mean of the reliability scores, which is the
\* arithmetic mean to the precision of a float64 (within 2^-51); on an empty
\* store the mean is 0 and nothing is divided
C21_Stats ==
    op.name = "get_memory_stats" =>
        LET stats == op.stats
            n == Len(memory)
        IN  /\ stats.entry_count = Cardinality(DOMAIN memory)
            /\ stats.verified_count =
                    Cardinality({i \in DOMAIN memory : memory[i].verified = TRUE})
            /\ memory = <<>> => stats.avg_reliability = 0
            /\ memory # <<>> =>
                   LET total == ExactSum(memory, 1)
                       avg == stats.avg_reliability
                   IN  /\ Excess(avg, n, total) < n * 2^6
                       /\ Excess(avg, n, total) > 0 - n * 2^6

\* the stats of three records, one of them verified
C21_Witness ==
    /\ op.name = "get_memory_stats"
    /\ Len(memory) = 3
    /\ op.stats.verified_count = 1
    /\ \E i \in 1..3 : memory[i].reliability_score # F_0_7

\* the stats of the empty store
C21_WitnessEmpty == op.name = "get_memory_stats" /\ memory = <<>>

----------------------------------------------------------------------------
(* AIAnalyzer._validate_and_parse by itself: one call on a response of the   *)
(* Analysis Service; a text that json.loads rejects has no data.              *)

\* the required_keys of a mode
RequiredKeys(mode) ==
    IF mode = "initial"
    THEN <<"impactedService", "probableRootCause", "splunkQuerySuggestion",
           "recommendedSteps", "confidence", "confidence_score",
           "confidence_reasoning", "isRepeatedIssue", "similarTicketReference",
           "similarityScore", "visualEvidenceUsed">>
    ELSE <<"enhanced_root_cause", "enhanced_resolution", "log_correlation_summary",
           "enhanced_confidence_score", "confidence_change_reason",
           "dominant_exception", "impactedService">>

\* Python's "needle in key" on strings: key has needle as a substring
Contains(needle, key) ==
    \E i \in 1..(Len(key) - Len(needle) + 1) :
        SubSeq(key, i, i + Len(needle) - 1) = needle

\* the value _validate_and_parse stores for a required key that is missing
DefaultValue(key) ==
    IF key = "isRepeatedIssue" THEN JsonFalse
    ELSE IF Contains("score", key) THEN JsonFloat("50.0")
    ELSE IF Contains("similarity", key) THEN JsonFloat("0.0")
    ELSE JsonStr("N/A")

\* the loop over required_keys from key i on
RECURSIVE RepairFrom(_, _, _)
RepairFrom(data, required_keys, i) ==
    IF i > Len(required_keys) THEN data
    ELSE LET key == required_keys[i]
         IN  IF ~Has(data, key) \/ data[key] = JsonNull
             THEN RepairFrom(Put(data, key, DefaultValue(key)), required_keys, i + 1)
             ELSE RepairFrom(data, required_keys, i + 1)

\* _validate_and_parse(json_str, mode): the repaired dict, or the exception
validate_and_parse(json_str, mode) ==
    IF ~json_str.valid THEN [raised |-> "AI output was not valid JSON."]
    ELSE RepairFrom(json_str.data, RequiredKeys(mode), 1)

ParseModes == {"initial", "enhanced"}

KeySet(mode) == {RequiredKeys(mode)[i] : i \in 1..Len(RequiredKeys(mode))}

\* the value the Analysis Service gives a key it does answer
AnsweredValue(key) ==
    IF key \in {"isRepeatedIssue", "visualEvidenceUsed"} THEN JsonTrue
    ELSE IF key \in {"confidence_score", "enhanced_confidence_score"}
    THEN JsonFloat("92.5")
    ELSE IF key = "similarityScore" THEN JsonFloat("0.85")
    ELSE JsonStr(key)

\* a response with the keys of `answered`, those of `nulls` being null, and
\* one key that is not required
Response(answered, nulls) ==
    [valid |-> TRUE,
     data |-> [k \in answered \cup nulls \cup {"extra"} |->
                 IF k \in nulls THEN JsonNull ELSE AnsweredValue(k)]]

\* the responses of a mode: any subset of the required keys is missing, at
\* most MaxNulls of the missing ones as null; and a text that is not JSON
Responses(mode) ==
    {Response(answered, nulls) :
        answered \in SUBSET KeySet(mode),
        nulls \in {n \in SUBSET KeySet(mode) : Cardinality(n) <= MaxNulls}}
    \cup {[valid |-> FALSE, data |-> <<>>]}

call_validate_and_parse ==
    /\ op.name = "init"
    /\ \E mode \in ParseModes :
         \E json_str \in Responses(mode) :
          op' = [name |-> "_validate_and_parse", mode |-> mode,
                 json_str |-> json_str,
                 result |-> validate_and_parse(json_str, mode)]
    /\ UNCHANGED <<run, runsStarted, calls, StoreVars, threads>>

NextParse == call_validate_and_parse

SpecParse == InitSim /\ [][NextParse]_vars

\* the required keys a response lacks: absent, or present and null
MissingKeys(json_str, mode) ==
    {k \in KeySet(mode) : ~Has(json_str.data, k) \/ json_str.data[k] = JsonNull}

\* the defaults the repair is to give: false for the two flags, 50.0 for the
\* confidence scores, 0.0 for the similarity score, "N/A" for the texts
StatedDefault(key) ==
    IF key \in {"isRepeatedIssue", "visualEvidenceUsed"} THEN JsonFalse
    ELSE IF key \in {"confidence_score", "enhanced_confidence_score"}
    THEN JsonFloat("50.0")
    ELSE IF key = "similarityScore" THEN JsonFloat("0.0")
    ELSE JsonStr("N/A")

\* C31: the repair of a response that parses leaves every required key in
\* the result, each missing one with its stated default (false for the
\* repeated-issue and visual-evidence flags, 50.0 for a confidence score, 0.0
\* for the similarity score, "N/A" for a text), each present one unchanged.
C31_Repair ==
    (op.name = "_validate_and_parse" /\ op.json_str.valid) =>
        /\ KeySet(op.mode) \subseteq DOMAIN op.result
        /\ \A k \in MissingKeys(op.json_str, op.mode) :
              op.result[k] = StatedDefault(k)
        /\ \A k \in (DOMAIN op.json_str.data) \ MissingKeys(op.json_str, op.mode) :
              op.result[k] = op.json_str.data[k]

----------------------------------------------------------------------------
(* A batch is saved into an empty store and a second MemoryManager is        *)
(* constructed on the same storage_path, as test_memory_manager_save_load    *)
(* does.                                                                     *)

\* the batches of the test: entries without a root cause or with one, of
\* distinct or of repeated case numbers
RoundTripEntries == {UpsertEntry(t, c) : t \in StatsTickets, c \in {None, "AI RC"}}

RECURSIVE BatchesOf(_)
BatchesOf(n) ==
    IF n = 0 THEN {<<>>}
    ELSE BatchesOf(n - 1) \cup
         {Append(b, e) : b \in {c \in BatchesOf(n - 1) : Len(c) = n - 1},
                         e \in RoundTripEntries}

RoundTripBatches == BatchesOf(MaxBatch) \ {<<>>}

\* MemoryManager(storage_path): the new object loads the document, and is
\* the store from then on
construct ==
    /\ memory' = LoadMemory(disk)
    /\ op' = [name |-> "__init__", previous |-> memory]
    /\ UNCHANGED <<disk, feedbackFile, now, submitted, orphaned, RunVars, threads>>

FirstSave == memory = <<>> /\ \E entries \in RoundTripBatches : save_memory(entries)

NextRoundTrip ==
    \/ FirstSave
    \/ construct

SpecRoundTrip == InitSim /\ [][NextRoundTrip]_vars

Distinct(entries) ==
    \A i, j \in 1..Len(entries) : entries[i].case_number = entries[j].case_number => i = j

\* the record a store is to hold for an entry: its identifier, text and
\* embedding, and the default fields
StoredAs(record, entry) ==
    /\ record.case_number = entry.case_number
    /\ record.text = entry.text
    /\ record.embedding = entry.embedding
    /\ record.ai_root_cause = Get(entry, "root_cause", "N/A")
    /\ record.ai_resolution = Get(entry, "resolution", "N/A")
    /\ record.analyst_root_cause = None
    /\ record.analyst_resolution = None
    /\ record.verified = FALSE
    /\ record.reliability_score = F_0_7
    /\ record.feedback_count = 0
    /\ DOMAIN record = {"case_number", "text", "embedding", "ai_root_cause",
                        "ai_resolution", "analyst_root_cause", "analyst_resolution",
                        "verified", "reliability_score", "feedback_count"}

\* C32: when a batch of entries of distinct identifiers has been saved into
\* an empty store, a store constructed on the snapshot holds exactly the
\* records of the batch: as many, in the order of the batch, each with the
\* identifier, the text and the embedding of its entry and the default
\* fields; and it holds what the store that wrote the snapshot held.
C32_RoundTrip ==
    [][/\ (memory = <<>> /\ op'.name = "save_memory") =>
            \A entries \in RoundTripBatches :
                (Len(entries) = op'.n /\ Distinct(entries) /\ save_memory(entries)) =>
                    LET loaded == LoadMemory(disk')
                    IN  /\ Len(loaded) = Len(entries)
                        /\ \A i \in 1..Len(entries) :
                              StoredAs(loaded[i], entries[i])
       /\ (construct /\ op.name = "save_memory" /\ Cardinality(op.ids) = op.n) =>
            /\ memory' = memory
            /\ Len(memory') = op.n]_vars

\* a second store was constructed on the snapshot of a batch of three
C32_Witness ==
    /\ op.name = "__init__"
    /\ Len(op.previous) = 3
    /\ Len(memory) = 3
    /\ memory[1].case_number = "T2"
    /\ memory[1].embedding = EmbeddingOf(TextOf("T2", NoneDict))
    /\ memory[2].ai_root_cause = "AI RC"
    /\ memory[3].ai_root_cause = "N/A"

----------------------------------------------------------------------------
(* A ticket is investigated on a store that the backfill has filled: the     *)
(* store holds up to two records when the run queries it.                    *)

\* the backfill runs before the investigation
Backfill == runsStarted = 0 /\ Upsert

NextQuery ==
    \/ Backfill
    \/ StartRun
    \/ Node

SpecQuery == Init /\ [][NextQuery]_vars

\* whether hundredths / 100 is a decimal of two places nearest to the score,
\* a double of [0, 1]
NearestHundredth(hundredths, score) ==
    IF score.m = <<>> THEN hundredths = 0
    ELSE BigCmp(BigDist(BigMulSmall(score.m, 200),
                        BigShl(BigOf(2 * hundredths), 0 - score.e)),
                BigShl(<<1>>, 0 - score.e)) <= 0

\* C33: node_query_memory sets similarity_context if and only if
\* find_most_similar_semantic over the store's current records returns a
\* match; the context then carries the case number and the text of the
\* returned record and the returned score rounded to two decimals; without a
\* match the context is None; in both cases the run goes on to generate_rca.
C33_ContextIffMatch ==
    [][(node_query_memory /\ run'.pc # "aborted") =>
        LET found == find_most_similar_semantic(DefaultThreshold,
                                                run'.current_embedding, memory)
            context == run'.similarity_context
        IN  /\ run'.pc = "generate_rca"
            /\ (context # NoneDict) <=> (found.match # 0)
            /\ found.match # 0 =>
                  /\ context.ticket_number = memory[found.match].case_number
                  /\ context.content = memory[found.match].text
                  /\ NearestHundredth(context.score, found.score)]_vars

\* the second of two records matched, with a score of 0.894... shown as 0.89
C33_Witness ==
    /\ op.name = "query_memory"
    /\ run.pc = "generate_rca"
    /\ Len(memory) = 2
    /\ run.similarity_context # NoneDict
    /\ run.similarity_context.ticket_number = memory[2].case_number
    /\ run.similarity_context.ticket_number # memory[1].case_number
    /\ run.similarity_context.score = 89

\* the stored record did not match: the context is None and the run goes on
C33_WitnessNoMatch ==
    /\ op.name = "query_memory"
    /\ run.pc = "generate_rca"
    /\ Len(memory) = 1
    /\ run.similarity_context = NoneDict

----------------------------------------------------------------------------
(* The status sequence of a run *)

\* the message each node appends first of all
StageMessage(node) ==
    CASE node = "ingest_ticket" -> StatusIngest
      [] node = "extract_visuals" -> StatusVisuals
      [] node = "query_memory" -> StatusMemory
      [] node = "generate_rca" -> StatusRca
      [] node = "analyze_logs" -> StatusLogs
      [] node = "synthesize_findings" -> StatusFinal

\* the nodes of a run that reached END, in the order of the graph's edges
StagesRun(log_data) ==
    <<"ingest_ticket", "extract_visuals", "query_memory", "generate_rca">>
        \o (IF TruthyStr(log_data) THEN <<"analyze_logs">> ELSE <<>>)
        \o <<"synthesize_findings">>

\* C34: every node that runs appends exactly one status message, that of
\* the node, and leaves the messages before it as they were; no other step
\* of a run in flight touches the sequence; at END the sequence lists the
\* nodes that ran in the order they ran, five messages without log text and
\* six with.
C34_StatusAppendOnly ==
    /\ [][run.pc \in NodeNames =>
            \/ run'.status_updates = run.status_updates /\ run'.pc = run.pc
            \/ /\ Len(run'.status_updates) = Len(run.status_updates) + 1
               /\ SubSeq(run'.status_updates, 1, Len(run.status_updates))
                     = run.status_updates
               /\ run'.status_updates[Len(run'.status_updates)]
                     = StageMessage(run.pc)
               /\ run'.visited = Append(run.visited, run.pc)]_vars
    /\ [](run.pc = "END" =>
            /\ run.visited = StagesRun(run.log_data)
            /\ Len(run.status_updates) = IF TruthyStr(run.log_data) THEN 6 ELSE 5
            /\ run.status_updates
                  = [i \in 1..Len(run.visited) |-> StageMessage(run.visited[i])])

\* a run without log text has ended on five messages
C34_Witness ==
    /\ run.pc = "END"
    /\ run.log_data = None
    /\ Len(run.status_updates) = 5
    /\ run.status_updates[4] = StatusRca
    /\ run.status_updates[5] = StatusFinal

\* a run with log text has ended on six messages
C34_WitnessLogs ==
    /\ run.pc = "END"
    /\ TruthyStr(run.log_data)
    /\ Len(run.status_updates) = 6
    /\ run.status_updates[6] = StatusFinal

----------------------------------------------------------------------------
(* The matched record a run holds *)

\* the fields of the matched record that a feedback can change
Captured(context) ==
    [verified |-> context.full_entry.verified,
     reliability_score |-> context.full_entry.reliability_score,
     analyst_root_cause |-> context.full_entry.analyst_root_cause,
     analyst_resolution |-> context.full_entry.analyst_resolution,
     ai_root_cause |-> context.full_entry.ai_root_cause]

\* C35: a feedback submitted while a run is past query_memory leaves the
\* run's similarity_context as query_memory captured it: the verified flag,
\* the reliability and the root cause fields of its matched record do not
\* change.
C35_ContextIsACopy ==
    [][(op'.name = "submit_feedback" /\ run.pc \in NodeNames
          /\ run.similarity_context # NoneDict) =>
            /\ run'.similarity_context # NoneDict
            /\ Captured(run'.similarity_context)
                  = Captured(run.similarity_context)]_vars

----------------------------------------------------------------------------
(* The audit log fails.  submit_feedback reads and rewrites feedback_path   *)
(* outside any try, before it looks at self.memory (lines 90-97).           *)

\* what can fail: json.load of the log, open(feedback_path, "w"), json.dump
AuditFaults == {"read", "open", "dump"}

\* a log that json.load refuses: the part of the text a failed dump left
PartialLog == <<[partial |-> TRUE]>>

\* feedback_path after the fault: a failed read or open leaves the file, a
\* failed dump has truncated it and left nothing or a part of the text
LogsAfter(feedbacks, fault) ==
    IF fault = "dump" THEN {<<>>, PartialLog} ELSE {feedbacks}

\* mutant: the record is updated before the log is written
MemoryAtRaise_UpdatedFirst(mem, updated) == updated

\* self.memory when the exception leaves submit_feedback: step 2 has not
\* begun, the list and its dicts are as they were
MemoryAtRaise(mem, updated) == mem

\* submit_feedback(...) whose read or write of the audit log raises
submit_feedback_raises(case_number, feedback_type, ai_output, analyst_correction, text, embedding, fault) ==
    /\ feedbackFile = PartialLog => fault = "read"
    /\ feedbackFile' \in LogsAfter(feedbackFile, fault)
    /\ memory' = MemoryAtRaise(memory,
                                FeedbackMemory(memory, case_number, feedback_type,
                                               ai_output, analyst_correction,
                                               text, embedding, now))
    /\ op' = [name |-> "submit_feedback", case_number |-> case_number,
              feedback_type |-> feedback_type, fault |-> fault, raised |-> TRUE]
    /\ UNCHANGED <<disk, now, submitted, orphaned, RunVars, threads>>

RaisingFeedback ==
    \E case_number \in FeedbackTickets, kind \in FeedbackKinds,
       ai_output \in AiOutputs, fault \in AuditFaults :
        submit_feedback_raises(case_number, kind[1], ai_output, kind[2],
                               TextOf(case_number, NoneDict),
                               EmbeddingOf(TextOf(case_number, NoneDict)), fault)

\* a feedback call that finds a log it can read and write
AuditFeedback ==
    /\ feedbackFile # PartialLog
    /\ now <= MaxAuditFeedback
    /\ AnyFeedback

NextAudit ==
    \/ AuditFeedback
    \/ RaisingFeedback

SpecAudit == Init /\ [][NextAudit]_vars

\* C36: a submit_feedback call that returns has appended its FeedbackRecord
\* to the audit log, whose earlier records are unchanged, so no record is
\* changed or created without one; a call whose read or write of the audit
\* log fails raises with self.memory and the store snapshot unchanged.
C36_AuditFirst ==
    [][op'.name = "submit_feedback" =>
          IF Has(op', "fault")
          THEN /\ op'.raised
               /\ memory' = memory
               /\ disk' = disk
          ELSE /\ Len(feedbackFile') = Len(feedbackFile) + 1
               /\ SubSeq(feedbackFile', 1, Len(feedbackFile)) = feedbackFile
               /\ LET record == feedbackFile'[Len(feedbackFile')]
                  IN  /\ record.case_number = op'.case_number
                      /\ record.feedback_type = op'.feedback_type]_vars

\* the dump of the audit log failed on a feedback for a stored record that
\* an earlier feedback had verified: the record and the snapshot are intact
C36_Witness ==
    /\ op.name = "submit_feedback"
    /\ Has(op, "fault")
    /\ op.fault = "dump"
    /\ op.feedback_type = "incorrect"
    /\ Len(memory) = 1
    /\ memory[1].case_number = op.case_number
    /\ memory[1].verified
    /\ disk.data = memory

----------------------------------------------------------------------------
(* An "edited" feedback that carries no correction *)

\* C37: submit_feedback with "edited" and no correction, for a case number
\* that has a record, leaves the record's verified flag, reliability score,
\* analyst root cause and analyst resolution as they were, adds 1 to its
\* feedback count, sets its last-feedback date to the day of the call, and
\* appends one FeedbackRecord to the audit log; no other record changes.
C37_EditedWithoutCorrection ==
    [][(/\ op'.name = "submit_feedback"
        /\ ~Has(op', "fault")
        /\ op'.feedback_type = "edited"
        /\ ~TruthyDict(op'.analyst_correction)
        /\ op'.case_number \in CaseNumbers(memory)) =>
          LET i == FirstIndex(memory, op'.case_number)
              old == memory[i]
              new == memory'[i]
              record == feedbackFile'[Len(feedbackFile')]
          IN  /\ Len(memory') = Len(memory)
              /\ \A j \in 1..Len(memory) : j # i => memory'[j] = memory[j]
              /\ new.verified = old.verified
              /\ new.reliability_score = old.reliability_score
              /\ new.analyst_root_cause = old.analyst_root_cause
              /\ new.analyst_resolution = old.analyst_resolution
              /\ new.feedback_count = old.feedback_count + 1
              /\ new.last_feedback_at = now
              /\ feedbackFile' = Append(feedbackFile, record)
              /\ record.case_number = op'.case_number
              /\ record.feedback_type = "edited"
              /\ record.analyst_root_cause = None]_vars

\* an "edited" feedback without a correction has met a record that a
\* "correct" feedback had verified at 0.75: it is still verified at 0.75
C37_Witness ==
    /\ op.name = "submit_feedback"
    /\ ~Has(op, "fault")
    /\ op.feedback_type = "edited"
    /\ ~TruthyDict(op.analyst_correction)
    /\ Len(feedbackFile) = 2
    /\ feedbackFile[1].feedback_type = "correct"
    /\ Len(memory) = 1
    /\ memory[1].feedback_count = 2
    /\ memory[1].verified
    /\ memory[1].reliability_score = F_0_75
    /\ memory[1].analyst_root_cause = None

----------------------------------------------------------------------------
(* The snapshot after a call *)

\* C38: after every save_memory or submit_feedback call that returned,
\* storage_path holds a JSON list that reads back as exactly the records of
\* self.memory, in the same order and with the same values in every field;
\* this holds as well after a save_memory that added no record.
C38_SnapshotIsMemory ==
    op.name \in {"save_memory", "submit_feedback"} =>
        /\ disk.state = "json"
        /\ Len(disk.data) = Len(memory)
        /\ \A i \in 1..Len(memory) :
              /\ DOMAIN disk.data[i] = DOMAIN memory[i]
              /\ \A key \in DOMAIN memory[i] : disk.data[i][key] = memory[i][key]

\* save_memory was handed a case number that the aged store held already:
\* it added nothing and rewrote the snapshot with the migrated record
C38_Witness ==
    /\ op.name = "save_memory"
    /\ op.ids = {"T1"}
    /\ feedbackFile = <<>>
    /\ Len(memory) = 1
    /\ memory[1].ai_root_cause = "Old RC"
    /\ Len(disk.data) = 1
    /\ Has(disk.data[1], "reliability_score")
    /\ disk.data[1].reliability_score = F_0_7

\* a feedback has cut the reliability to 0.49999999999999994, and the
\* snapshot holds that very float
C38_WitnessFeedback ==
    /\ op.name = "submit_feedback"
    /\ Len(memory) = 1
    /\ memory[1].reliability_score = FSub(F_0_7, F_0_20)
    /\ memory[1].reliability_score # F_0_5
    /\ disk.data[1].reliability_score = memory[1].reliability_score

----------------------------------------------------------------------------
(* A ticket is investigated again.  The store may hold, before the first   *)
(* run, a record of the ticket itself or the record of a ticket that was   *)
(* filed twice, whose comparison text is that of the ticket.               *)

\* the record of the ticket filed before T1 with the same text
DuplicateEntry ==
    [case_number |-> "T0", text |-> TextOf("T1", NoneDict),
     embedding |-> EmbeddingOf(TextOf("T1", NoneDict)),
     root_cause |-> "Old RC", resolution |-> "Old RES"]

SelfDisks == InitialDisks \cup {[state |-> "json", data |-> <<DuplicateEntry>>]}

InitSelf ==
    /\ disk \in SelfDisks
    /\ memory = LoadMemory(disk)
    /\ feedbackFile = <<>>
    /\ now = 1
    /\ run = NoRun
    /\ runsStarted = 0
    /\ calls = {}
    /\ op = [name |-> "init"]
    /\ submitted = [t \in Tickets |-> 0]
    /\ orphaned = {}
    /\ threads = [th \in ThreadIds |-> Idle]

SpecSelf == InitSelf /\ [][NextRerun]_vars

\* thresholds a SimilarityEngine is built with, none above 1
SelfThresholds == {DblZero, DefaultThreshold, DblOne}

\* query_memory of a second run of the ticket, the first run having passed
\* generate_rca, with the comparison text of the first run
RerunQuery ==
    /\ node_query_memory
    /\ run'.pc # "aborted"
    /\ Has(run, "earlier")
    /\ run.earlier.registered
    /\ run'.text_for_embedding = run.earlier.text

C39_WitnessTie ==
    /\ op.name = "query_memory"
    /\ run.pc = "generate_rca"
    /\ Has(run, "earlier")
    /\ run.earlier.registered
    /\ run.earlier.text = run.text_for_embedding
    /\ Len(memory) = 2
    /\ memory[2].case_number = run.ticket_id
    /\ memory[2].embedding = run.current_embedding
    /\ run.similarity_context # NoneDict
    /\ run.similarity_context.ticket_number = "T0"
    /\ run.similarity_context.score = 100

----------------------------------------------------------------------------
(* The running confidence score *)

\* confidence scores a run can be started with
SuppliedScores == {0} \cup ConfidenceScores

\* C40: at END the run's confidence_score is the confidence_score of
\* initial_rca if analyze_logs did not run, and the
\* enhanced_confidence_score of enhanced_rca if it did; and a generate_rca
\* that succeeds sets confidence_score to that of its analysis whatever
\* score the run was started with.
C40_ConfidenceAtEnd ==
    /\ [](run.pc = "END" =>
            IF \E i \in 1..Len(run.visited) : run.visited[i] = "analyze_logs"
            THEN /\ run.enhanced_rca # NoneDict
                 /\ run.confidence_score
                       = run.enhanced_rca.enhanced_confidence_score
            ELSE /\ run.enhanced_rca = NoneDict
                 /\ run.initial_rca # NoneDict
                 /\ run.confidence_score = run.initial_rca.confidence_score)
    /\ [][(op'.name = "generate_rca" /\ op'.ok) =>
            /\ run'.confidence_score = run'.initial_rca.confidence_score
            /\ \A supplied \in SuppliedScores :
                  GenerateRca([run EXCEPT !.confidence_score = supplied],
                              run'.initial_rca).confidence_score
                    = run'.initial_rca.confidence_score]_vars

\* a run started with the score 90 of the analysis before it has ended,
\* without logs, on the score 35 of its own analysis
C40_Witness ==
    /\ run.pc = "END"
    /\ Has(run, "earlier")
    /\ run.earlier.confidence_score = 90
    /\ run.enhanced_rca = NoneDict
    /\ run.initial_rca.confidence_score = 35
    /\ run.confidence_score = 35

\* a run with logs has ended on the score 90 of the re-analysis, its own
\* analysis having scored 35
C40_WitnessLogs ==
    /\ run.pc = "END"
    /\ run.enhanced_rca # NoneDict
    /\ run.initial_rca.confidence_score = 35
    /\ run.enhanced_rca.enhanced_confidence_score = 90
    /\ run.confidence_score = 90
====
